---- MODULE Spec2Model ----
(***************************************************************************)
(* Shift compliance and coverage engine of pixlcat-sling-api.              *)
(*                                                                         *)
(* Time is counted in minutes from midnight of day 0, a Monday, in the     *)
(* operating timezone: an instant t lies on day t \div 1440 at minute of   *)
(* day t % 1440.  Hours are carried as minute counts (hours * 60), so a    *)
(* fractional hour is exact and "> 40 hours" is "> 40 * 60 minutes".       *)
(* The upstream calendar is one snapshot, cal; the handlers read it        *)
(* through getOrgCalendar and write only the response and the              *)
(* process-wide session cache.                                             *)
(***************************************************************************)
EXTENDS Integers, Sequences, FiniteSets, TLC

VARIABLES
    cal,            \* upstream calendar snapshot: shifts, leaves, availability
    cachedSession,  \* let _cachedSession
    req,            \* the request served last
    resp,           \* the response sent last
    probe,          \* history: the first Validate request served and its response
    monitoringState,  \* clock monitor: activeShifts, pendingReplies, resolvedToday
    handlers,       \* clock monitor: where each cron handler stands, and its locals
    sentLog,        \* history: reminder DMs sent per shift since the last reset
    nowTime,        \* clock monitor: new Date().getTime() at the cron instant
    lastPostedDate, \* let _lastPostedDate
    postings,       \* daily scheduler: per date, the postings started and their progress
    wallClock       \* daily scheduler: Pacific wall-clock time

apiVars == <<cal, cachedSession, req, resp, probe>>

monitorVars == <<monitoringState, handlers, sentLog, nowTime>>

schedulerVars == <<lastPostedDate, postings, wallClock>>

vars == <<cal, cachedSession, req, resp, probe, monitoringState, handlers, sentLog,
          nowTime, lastPostedDate, postings, wallClock>>

----------------------------------------------------------------------------
(* Program constants *)

CLEMENT == 16124319
NINTH == 16128300

JESUS == 16159503
CLAYTON == 22635995
BRIANNA == 21868029
HAYDEN == 19838518
EMILY == 24605713
SARA == 24949126
JAMES == 19506789
DAVID == 12302285

MAX_WEEKLY_HOURS == 40
MAX_CONSECUTIVE_DAYS == 7
WARN_CONSECUTIVE_DAYS == 6

CROSS_LOCATION_POOL == {SARA, BRIANNA, JAMES, EMILY, CLAYTON, DAVID}

\* EMPLOYEE_NAMES restricted to the employees of the model, lower-cased
EMPLOYEE_NAMES == [e \in {SARA, JESUS, HAYDEN, DAVID} |->
    IF e = SARA THEN "sara" ELSE IF e = JESUS THEN "jesus"
    ELSE IF e = HAYDEN THEN "hayden" ELSE "david"]

\* the name Sling's location group carries: LOCATION_NAMES for the two known
\* locations, another name for any other location, "" for no location
LocationName(locationId) ==
    IF locationId = CLEMENT THEN "Clement Pixlcat"
    ELSE IF locationId = NINTH THEN "9th st Pixlcat"
    ELSE IF locationId = 0 THEN ""
    ELSE "Other"

IncludesClement(name) == name = "Clement Pixlcat"
Includes9th(name) == name = "9th st Pixlcat"

----------------------------------------------------------------------------
(* Bounds and input menus *)

\* longest run of worked days placed right before the target date
MaxRun == 6

MinutesPerDay == 24 * 60
At(day, hour) == day * MinutesPerDay + hour * 60
DayOf(t) == t \div MinutesPerDay
MinuteOfDay(t) == t % MinutesPerDay

\* the most a group of past shifts has run, and the count that makes a
\* group a template (t.count >= 3)
MaxGroup == 4
MinTemplateCount == 3

\* longest run of worked days placed right before and right after the center
\* date of the streak analysis
MaxBefore == 11
MaxAfter == 10

\* the target date of the requests: a Saturday, day 0 being a Monday
TargetDay == 7 + 5

\* a location of the organisation that is neither Clement nor 9th
ThirdLocation == NINTH + 1


----------------------------------------------------------------------------
(* Sequence helpers: Array.prototype.find / some / filter / reduce *)

Some(s, P(_)) == \E i \in DOMAIN s : P(s[i])

Find(s, P(_)) ==
    IF Some(s, P) THEN <<s[CHOOSE i \in DOMAIN s : P(s[i]) /\ \A j \in 1..(i - 1) : ~P(s[j])]>>
    ELSE <<>>

RECURSIVE SumMinutes(_)
SumMinutes(s) ==
    IF s = <<>> THEN 0 ELSE (Head(s).end - Head(s).start) + SumMinutes(Tail(s))

Rules(list) == {list[i].rule : i \in DOMAIN list}

----------------------------------------------------------------------------
(* getSessionInfo / getOrgCalendar *)

\* what GET /account/session answers for the configured token
UpstreamSession == [org |-> [id |-> 1, memberGroupId |-> 3], user |-> [id |-> 2]]

\* getSessionInfo reading the member group where the user id is meant once the
\* session is cached
getSessionInfoWrongField(cached) ==
    IF cached # <<>> THEN <<[cached[1] EXCEPT !.userId = cached[1].memberGroupId]>>
    ELSE <<[orgId |-> UpstreamSession.org.id,
            userId |-> UpstreamSession.user.id,
            memberGroupId |-> UpstreamSession.org.memberGroupId]>>

getSessionInfo(cached) ==
    IF cached # <<>> THEN cached
    ELSE <<[orgId |-> UpstreamSession.org.id,
            userId |-> UpstreamSession.user.id,
            memberGroupId |-> UpstreamSession.org.memberGroupId]>>

\* an event belongs to the answer for dates = dateStart/dateEnd when it
\* intersects the range
InRange(ev, dateStart, dateEnd) == ev.start < dateEnd /\ ev.end > dateStart

\* GET /{orgId}/calendar/{userId}?dates=...: the organisation's events, and
\* nothing for an identifier pair that is not the session's
getOrgCalendar(c, session, dateStart, dateEnd) ==
    LET own == session.orgId = UpstreamSession.org.id
               /\ session.userId = UpstreamSession.user.id
        pick(s) == IF own THEN SelectSeq(s, LAMBDA ev : InRange(ev, dateStart, dateEnd))
                   ELSE <<>>
    IN  [shifts |-> pick(c.shifts),
         leaves |-> pick(c.leaves),
         availability |-> pick(c.availability)]

\* getDayRange for an absolute date: the day's first instant and its last
getDayRange(date) ==
    [start |-> date * MinutesPerDay, end |-> (date + 1) * MinutesPerDay, isoDate |-> date]

\* Date.prototype.getDay: 0 is Sunday
getDay(date) == (date + 1) % 7

\* getWeekRange: Monday 00:00 through Sunday 23:59:59.999
getWeekRange(date) ==
    LET day == getDay(date)
        monday == date - (IF day = 0 THEN 6 ELSE day - 1)
    IN  [start |-> monday * MinutesPerDay, end |-> (monday + 7) * MinutesPerDay]

resolveEmployeeId(nameOrId) ==
    IF \E e \in DOMAIN EMPLOYEE_NAMES : EMPLOYEE_NAMES[e] = nameOrId
    THEN CHOOSE e \in DOMAIN EMPLOYEE_NAMES : EMPLOYEE_NAMES[e] = nameOrId
    ELSE 0

----------------------------------------------------------------------------
(* POST /schedule/validate *)

\* startTime / endTime after split(':').map(Number): <<h, m>>, or <<>> when
\* the field is absent; h * 60 + (m || 0)
MinutesOf(hm) == hm[1] * 60 + hm[2]

HasWindow(body) == body.startTime # <<>> /\ body.endTime # <<>>

\* target location resolution
TargetLocId(location) ==
    IF location = <<>> THEN CLEMENT
    ELSE IF location[1] = "string" THEN (IF Includes9th(location[2]) THEN NINTH ELSE CLEMENT)
    ELSE location[2]

Violation(rule, severity) == [rule |-> rule, severity |-> severity]

\* GATE 1: Availability + Leave
Gate1HasLeave(userId, day) == Some(day.leaves, LAMBDA l : l.employeeId = userId)

Gate1EmpAvails(userId, day) == SelectSeq(day.availability, LAMBDA a : a.employeeId = userId)

\* containment that leaves out equal bounds
Gate1FitsAnyStrict(empAvails, body) ==
    Some(empAvails, LAMBDA a :
        /\ MinutesOf(body.startTime) > MinuteOfDay(a.start)
        /\ MinutesOf(body.endTime) < MinuteOfDay(a.end))

Gate1FitsAny(empAvails, body) ==
    Some(empAvails, LAMBDA a :
        /\ MinutesOf(body.startTime) >= MinuteOfDay(a.start)
        /\ MinutesOf(body.endTime) <= MinuteOfDay(a.end))

\* gate 1 without the full-day test
Gate1ViolationsNoFullDay(userId, day, body) ==
    LET empAvails == Gate1EmpAvails(userId, day)
        leave == IF Gate1HasLeave(userId, day) THEN <<Violation("LEAVE-001", "RED")>> ELSE <<>>
        avail == IF /\ Len(empAvails) > 0
                    /\ HasWindow(body)
                    /\ ~Gate1FitsAny(empAvails, body)
                 THEN <<Violation("AVAIL-001", "RED")>> ELSE <<>>
    IN  leave \o avail

Gate1Violations(userId, day, body) ==
    LET empAvails == Gate1EmpAvails(userId, day)
        leave == IF Gate1HasLeave(userId, day) THEN <<Violation("LEAVE-001", "RED")>> ELSE <<>>
        avail == IF /\ Len(empAvails) > 0
                    /\ HasWindow(body)
                    /\ ~Some(empAvails, LAMBDA a : a.fullDay)
                    /\ ~Gate1FitsAny(empAvails, body)
                 THEN <<Violation("AVAIL-001", "RED")>> ELSE <<>>
    IN  leave \o avail

Gate1Warnings(userId, day, body) ==
    LET empAvails == Gate1EmpAvails(userId, day)
    IN  IF Len(empAvails) > 0 /\ HasWindow(body) THEN <<>>
        ELSE IF Len(empAvails) = 0 /\ ~Gate1HasLeave(userId, day)
        THEN <<Violation("AVAIL-FALLBACK", "YELLOW")>>
        ELSE <<>>

\* GATE 2: Cross-location
Gate2OtherLocShift(userId, day, targetLocId) ==
    LET otherLocId == IF targetLocId = CLEMENT THEN NINTH ELSE CLEMENT
    IN  Find(day.shifts, LAMBDA s :
            /\ s.employeeId = userId
            /\ \/ s.locationId = otherLocId
               \/ (otherLocId = NINTH /\ Includes9th(LocationName(s.locationId)))
               \/ (otherLocId = CLEMENT /\ IncludesClement(LocationName(s.locationId))))

\* gate 2 applied to every employee
Gate2ViolationsAnyone(userId, day, targetLocId) ==
    IF Gate2OtherLocShift(userId, day, targetLocId) # <<>>
    THEN <<Violation("XLOC-001", "RED")>> ELSE <<>>

Gate2Violations(userId, day, targetLocId) ==
    IF userId \in CROSS_LOCATION_POOL /\ Gate2OtherLocShift(userId, day, targetLocId) # <<>>
    THEN <<Violation("XLOC-001", "RED")>> ELSE <<>>

\* GATE 3: Weekly hours, in minutes
WeeklyMinutes(userId, week) ==
    SumMinutes(SelectSeq(week.shifts, LAMBDA s : s.employeeId = userId))

ProposedMinutes(body) ==
    IF HasWindow(body) THEN MinutesOf(body.endTime) - MinutesOf(body.startTime) ELSE 0

\* gate 3 firing at the cap
Gate3ViolationsAtCap(weeklyMinutes, proposedMinutes) ==
    IF weeklyMinutes + proposedMinutes >= MAX_WEEKLY_HOURS * 60
    THEN <<Violation("HOURS-001", "ORANGE")>> ELSE <<>>

Gate3Violations(weeklyMinutes, proposedMinutes) ==
    IF weeklyMinutes + proposedMinutes > MAX_WEEKLY_HOURS * 60
    THEN <<Violation("HOURS-001", "ORANGE")>> ELSE <<>>

\* GATE 4: Consecutive days
WorkDates(userId, shifts) ==
    {DayOf(shifts[i].start) : i \in {j \in DOMAIN shifts : shifts[j].employeeId = userId}}

RECURSIVE WalkStreak(_, _, _)
WalkStreak(workDates, checkDate, step) ==
    IF (checkDate + step) \in workDates
    THEN 1 + WalkStreak(workDates, checkDate + step, step)
    ELSE 0

\* the streak without the forward walk
ValidateStreakBackwardOnly(userId, streakShifts, date) ==
    LET workDates == WorkDates(userId, streakShifts) \cup {date}
    IN  1 + WalkStreak(workDates, date, -1)

ValidateStreak(userId, streakShifts, date) ==
    LET workDates == WorkDates(userId, streakShifts) \cup {date}
    IN  1 + WalkStreak(workDates, date, -1) + WalkStreak(workDates, date, 1)

\* gate 4 warning only above the warn threshold
Gate4ViolationsAboveWarn(streak) ==
    IF streak >= MAX_CONSECUTIVE_DAYS THEN <<Violation("CONSEC-001", "RED")>>
    ELSE IF streak > WARN_CONSECUTIVE_DAYS THEN <<Violation("CONSEC-002", "ORANGE")>>
    ELSE <<>>

Gate4Violations(streak) ==
    IF streak >= MAX_CONSECUTIVE_DAYS THEN <<Violation("CONSEC-001", "RED")>>
    ELSE IF streak >= WARN_CONSECUTIVE_DAYS THEN <<Violation("CONSEC-002", "ORANGE")>>
    ELSE <<>>

\* verdict resolution testing ORANGE before RED
ResolveStatusOrangeFirst(violations, warnings) ==
    LET redV == SelectSeq(violations, LAMBDA v : v.severity = "RED")
        orangeV == SelectSeq(violations, LAMBDA v : v.severity = "ORANGE")
    IN  IF Len(orangeV) > 0 THEN "NEEDS_APPROVAL"
        ELSE IF Len(redV) > 0 THEN "BLOCKED"
        ELSE IF Len(warnings) > 0 THEN "UNCONFIRMED"
        ELSE "APPROVED"

\* verdict resolution
ResolveStatus(violations, warnings) ==
    LET redV == SelectSeq(violations, LAMBDA v : v.severity = "RED")
        orangeV == SelectSeq(violations, LAMBDA v : v.severity = "ORANGE")
    IN  IF Len(redV) > 0 THEN "BLOCKED"
        ELSE IF Len(orangeV) > 0 THEN "NEEDS_APPROVAL"
        ELSE IF Len(warnings) > 0 THEN "UNCONFIRMED"
        ELSE "APPROVED"

\* the gates stopping at the first one that reports
ValidateViolationsShortCircuit(g1, g2, g3, g4) ==
    IF g1 # <<>> THEN g1 ELSE IF g2 # <<>> THEN g2 ELSE IF g3 # <<>> THEN g3 ELSE g4

\* the four gates in the order the handler runs them, each appending to the
\* same violations list
ValidateViolations(g1, g2, g3, g4) == g1 \o g2 \o g3 \o g4

ValidateUserId(body) ==
    IF body.employeeId # 0 THEN body.employeeId ELSE resolveEmployeeId(body.employee)

\* the handler past its input checks, with the session it fetched or found
ValidateVerdict(c, session, body) ==
    LET userId == ValidateUserId(body)
        range == getDayRange(body.date)
        targetLocId == TargetLocId(body.location)
        day == getOrgCalendar(c, session, range.start, range.end)
        wk == getWeekRange(range.isoDate)
        week == getOrgCalendar(c, session, wk.start, wk.end)
        weeklyMinutes == WeeklyMinutes(userId, week)
        proposedMinutes == ProposedMinutes(body)
        streakData == getOrgCalendar(c, session, range.start - 8 * MinutesPerDay,
                                     range.start + 8 * MinutesPerDay)
        streak == ValidateStreak(userId, streakData.shifts, DayOf(range.start))
        violations == ValidateViolations(Gate1Violations(userId, day, body),
                                         Gate2Violations(userId, day, targetLocId),
                                         Gate3Violations(weeklyMinutes, proposedMinutes),
                                         Gate4Violations(streak))
        warnings == Gate1Warnings(userId, day, body)
    IN  [op |-> "validate",
         http |-> 200,
         status |-> ResolveStatus(violations, warnings),
         employeeId |-> userId,
         date |-> range.isoDate,
         locationId |-> targetLocId,
         violations |-> violations,
         warnings |-> warnings,
         weeklyMinutes |-> weeklyMinutes,
         projectedMinutes |-> weeklyMinutes + proposedMinutes,
         consecutiveDays |-> streak]

ValidateRejected(body) == ValidateUserId(body) = 0 \/ body.date = 0

\* a date string new Date() cannot read (carried as a negative date):
\* getDayRange throws on toISOString and the handler's catch answers 500
ValidateDateUnreadable(body) == body.date < 0

ErrorResponse(op, http) == [op |-> op, http |-> http]

\* one run of the handler: the response, and the session cache it leaves
ValidateStep(body) ==
    IF ValidateRejected(body)
    THEN /\ resp' = ErrorResponse("validate", 400)
         /\ cachedSession' = cachedSession
    ELSE IF ValidateDateUnreadable(body)
    THEN /\ resp' = ErrorResponse("validate", 500)
         /\ cachedSession' = cachedSession
    ELSE /\ cachedSession' = getSessionInfo(cachedSession)
         /\ resp' = ValidateVerdict(cal, cachedSession'[1], body)

----------------------------------------------------------------------------
(* GET /schedule/consecutive/:userId *)

\* the loop over allDates: activeStreak grows on a worked date; on any other
\* date it is compared with longestStreak, kept as centerStreak when it holds
\* the center date, and emptied
RECURSIVE ConsecutiveWalk(_, _, _, _, _, _, _)
ConsecutiveWalk(workDates, d, last, center, activeStreak, longestStreak, centerStreak) ==
    IF d > last
    THEN [longestStreak |-> IF Len(activeStreak) > Len(longestStreak)
                            THEN activeStreak ELSE longestStreak,
          centerStreak |-> IF Some(activeStreak, LAMBDA x : x = center)
                           THEN activeStreak ELSE centerStreak]
    ELSE IF d \in workDates
    THEN ConsecutiveWalk(workDates, d + 1, last, center,
                         Append(activeStreak, d), longestStreak, centerStreak)
    ELSE ConsecutiveWalk(workDates, d + 1, last, center, <<>>,
                         IF Len(activeStreak) > Len(longestStreak)
                         THEN activeStreak ELSE longestStreak,
                         IF Some(activeStreak, LAMBDA x : x = center)
                         THEN activeStreak ELSE centerStreak)

\* the two flags with the approval one not bounded above
ConsecutiveFlagsUnbounded(currentStreak) ==
    [hardBlock |-> currentStreak >= MAX_CONSECUTIVE_DAYS,
     needsApproval |-> currentStreak >= WARN_CONSECUTIVE_DAYS]

\* violations: { hardBlock, needsApproval }
ConsecutiveFlags(currentStreak) ==
    [hardBlock |-> currentStreak >= MAX_CONSECUTIVE_DAYS,
     needsApproval |-> /\ currentStreak >= WARN_CONSECUTIVE_DAYS
                       /\ currentStreak < MAX_CONSECUTIVE_DAYS]

\* 10 days each side of the center date
analyzeConsecutive(c, session, userId, date) ==
    LET centerDate == DayOf(getDayRange(date).start)
        rangeStart == (centerDate - 10) * MinutesPerDay
        rangeEnd == (centerDate + 10 + 1) * MinutesPerDay
        shifts == getOrgCalendar(c, session, rangeStart, rangeEnd).shifts
        workDates == WorkDates(userId, shifts)
        walk == ConsecutiveWalk(workDates, centerDate - 10, centerDate + 10, centerDate,
                                <<>>, <<>>, <<>>)
    IN  [op |-> "consecutive",
         http |-> 200,
         employeeId |-> userId,
         centerDate |-> centerDate,
         currentStreak |-> Len(walk.centerStreak),
         currentStreakDates |-> walk.centerStreak,
         longestStreak |-> Len(walk.longestStreak),
         longestStreakDates |-> walk.longestStreak,
         hardBlock |-> ConsecutiveFlags(Len(walk.centerStreak)).hardBlock,
         needsApproval |-> ConsecutiveFlags(Len(walk.centerStreak)).needsApproval]

\* The same handler with the two date conversions of its loop told apart.
\* The minutes the server's clock is ahead of Pacific time: a server on
\* Pacific time, and a server on UTC in winter
ServerZones == {0, 8 * 60}

\* Date.prototype.toDateString: the date of an instant on the server's clock
toDateString(zone, t) == (t + zone) \div MinutesPerDay

\* toISODatePT: the date of an instant in Pacific time
toISODatePT(t) == t \div MinutesPerDay

\* setHours(0, 0, 0, 0): midnight of a date on the server's clock
LocalMidnight(zone, date) == date * MinutesPerDay - zone

\* the loop over allDates: a date is tested by its toDateString and pushed
\* as its toISODatePT
RECURSIVE ConsecutiveWalkOn(_, _, _, _, _, _, _, _)
ConsecutiveWalkOn(zone, workDates, d, last, center, activeStreak, longestStreak, centerStreak) ==
    IF d > last
    THEN [longestStreak |-> IF Len(activeStreak) > Len(longestStreak)
                            THEN activeStreak ELSE longestStreak,
          centerStreak |-> IF Some(activeStreak, LAMBDA x : x = center)
                           THEN activeStreak ELSE centerStreak]
    ELSE IF d \in workDates
    THEN ConsecutiveWalkOn(zone, workDates, d + 1, last, center,
                           Append(activeStreak, toISODatePT(LocalMidnight(zone, d))),
                           longestStreak, centerStreak)
    ELSE ConsecutiveWalkOn(zone, workDates, d + 1, last, center, <<>>,
                           IF Len(activeStreak) > Len(longestStreak)
                           THEN activeStreak ELSE longestStreak,
                           IF Some(activeStreak, LAMBDA x : x = center)
                           THEN activeStreak ELSE centerStreak)

analyzeConsecutiveOn(zone, c, session, userId, date) ==
    LET centerDate == getDayRange(date).start
        first == toDateString(zone, centerDate) - 10
        last == toDateString(zone, centerDate) + 10
        rangeStart == LocalMidnight(zone, first)
        rangeEnd == LocalMidnight(zone, last + 1)
        shifts == getOrgCalendar(c, session, rangeStart, rangeEnd).shifts
        workDates == {toDateString(zone, shifts[i].start) :
                         i \in {j \in DOMAIN shifts : shifts[j].employeeId = userId}}
        walk == ConsecutiveWalkOn(zone, workDates, first, last, toISODatePT(centerDate),
                                  <<>>, <<>>, <<>>)
    IN  [op |-> "consecutive",
         http |-> 200,
         employeeId |-> userId,
         centerDate |-> toISODatePT(centerDate),
         currentStreak |-> Len(walk.centerStreak),
         currentStreakDates |-> walk.centerStreak,
         longestStreak |-> Len(walk.longestStreak),
         longestStreakDates |-> walk.longestStreak,
         hardBlock |-> ConsecutiveFlags(Len(walk.centerStreak)).hardBlock,
         needsApproval |-> ConsecutiveFlags(Len(walk.centerStreak)).needsApproval]

----------------------------------------------------------------------------
(* findCoverage *)

\* insertion into a JavaScript Set: kept once, in first-insertion order
RECURSIVE AddAll(_, _)
AddAll(ids, more) ==
    IF more = <<>> THEN ids
    ELSE AddAll(IF Head(more) = 0 \/ Some(ids, LAMBDA x : x = Head(more))
                THEN ids ELSE Append(ids, Head(more)),
                Tail(more))

EmployeeIdsOf(events) == [i \in DOMAIN events |-> events[i].employeeId]

\* clementEmployeeIds: Clement shifts of the week, Clement shifts of the streak
\* window, then everyone with availability in the week
CoveragePool(weekData, streakData) ==
    LET clement(shifts) == SelectSeq(shifts, LAMBDA s : IncludesClement(LocationName(s.locationId)))
    IN  AddAll(AddAll(AddAll(<<>>, EmployeeIdsOf(clement(weekData.shifts))),
                      EmployeeIdsOf(clement(streakData.shifts))),
               EmployeeIdsOf(weekData.availability))

\* Already working?
CoverAlreadyWorking(empId, weekShifts, targetDate) ==
    SelectSeq(weekShifts, LAMBDA s : s.employeeId = empId /\ DayOf(s.start) = targetDate)

CoverOverlaps(existing, shiftToCover) ==
    existing.start < shiftToCover.end /\ existing.end > shiftToCover.start

\* On leave?
CoverOnLeave(empId, weekLeaves, targetDate) ==
    Some(weekLeaves, LAMBDA l :
        /\ l.employeeId = empId
        /\ l.start <= targetDate * MinutesPerDay
        /\ l.end >= targetDate * MinutesPerDay)

\* Availability?
CoverAvailReasons(empId, weekAvail, shiftToCover, targetDate) ==
    LET dayAvail == SelectSeq(weekAvail, LAMBDA a :
                        a.employeeId = empId /\ DayOf(a.start) = targetDate)
    IN  IF Len(dayAvail) > 0
        THEN IF /\ ~Some(dayAvail, LAMBDA a : a.fullDay)
                /\ ~Some(dayAvail, LAMBDA a :
                        shiftToCover.start >= a.start /\ shiftToCover.end <= a.end)
             THEN <<"AVAIL_NO_FIT">> ELSE <<>>
        ELSE IF Some(weekAvail, LAMBDA a : a.employeeId = empId)
             THEN <<"NO_AVAIL_SET">> ELSE <<>>

\* 40hr cap?
CoverHoursReasons(projectedMinutes) ==
    IF projectedMinutes > 40 * 60 THEN <<"HOURS_CAP">> ELSE <<>>

\* Consecutive? the longest run anywhere in the window of 6 days each side
RECURSIVE MaxConsecutive(_, _, _, _, _)
MaxConsecutive(datesWorked, d, last, current, best) ==
    IF d > last THEN best
    ELSE IF d \in datesWorked
    THEN MaxConsecutive(datesWorked, d + 1, last, current + 1,
                        IF current + 1 > best THEN current + 1 ELSE best)
    ELSE MaxConsecutive(datesWorked, d + 1, last, 0, best)

\* the loop over 5 days each side
CoverMaxConsecutiveNarrow(empId, streakShifts, targetDate) ==
    MaxConsecutive(WorkDates(empId, streakShifts) \cup {targetDate},
                   targetDate - 5, targetDate + 5, 0, 0)

CoverMaxConsecutive(empId, streakShifts, targetDate) ==
    MaxConsecutive(WorkDates(empId, streakShifts) \cup {targetDate},
                   targetDate - 6, targetDate + 6, 0, 0)

CoverCandidate(empId, weekData, streakData, shiftToCover, targetDate) ==
    LET alreadyWorking == CoverAlreadyWorking(empId, weekData.shifts, targetDate)
        overlaps == Len(alreadyWorking) > 0 /\ CoverOverlaps(alreadyWorking[1], shiftToCover)
        weeklyMinutes == WeeklyMinutes(empId, weekData)
        projectedMinutes == weeklyMinutes + (shiftToCover.end - shiftToCover.start)
        maxConsecutive == CoverMaxConsecutive(empId, streakData.shifts, targetDate)
        shiftsThisWeek == Len(SelectSeq(weekData.shifts, LAMBDA s : s.employeeId = empId))
        reasons ==
            (IF overlaps THEN <<"ALREADY_WORKING">> ELSE <<>>)
            \o (IF CoverOnLeave(empId, weekData.leaves, targetDate) THEN <<"ON_LEAVE">> ELSE <<>>)
            \o CoverAvailReasons(empId, weekData.availability, shiftToCover, targetDate)
            \o CoverHoursReasons(projectedMinutes)
            \o (IF maxConsecutive >= MAX_CONSECUTIVE_DAYS THEN <<"CONSEC_MAX">> ELSE <<>>)
        warnings ==
            (IF Len(alreadyWorking) > 0 /\ ~overlaps THEN <<"DOUBLE_POSSIBLE">> ELSE <<>>)
            \o (IF maxConsecutive < MAX_CONSECUTIVE_DAYS /\ maxConsecutive >= WARN_CONSECUTIVE_DAYS
                THEN <<"CONSEC_WARN">> ELSE <<>>)
            \o (IF shiftsThisWeek + 1 = 6 THEN <<"SIXTH_SHIFT">>
                ELSE IF shiftsThisWeek + 1 > 6 THEN <<"SHIFT_NUMBER">> ELSE <<>>)
    IN  [employeeId |-> empId,
         available |-> Len(reasons) = 0,
         reasons |-> reasons,
         warnings |-> warnings,
         weeklyMinutes |-> weeklyMinutes,
         projectedMinutes |-> projectedMinutes,
         maxConsecutive |-> maxConsecutive]

\* the comparator ordering by projected hours alone
CandidateCompareHoursOnly(a, b) == a.projectedMinutes - b.projectedMinutes

\* the comparator of candidates.sort
CandidateCompare(a, b) ==
    IF a.available /\ ~b.available THEN -1
    ELSE IF ~a.available /\ b.available THEN 1
    ELSE IF a.available /\ b.available THEN a.projectedMinutes - b.projectedMinutes
    ELSE 0

\* Array.prototype.sort is stable: insertion from the left
RECURSIVE InsertCandidate(_, _)
InsertCandidate(sorted, x) ==
    IF sorted = <<>> THEN <<x>>
    ELSE IF CandidateCompare(sorted[Len(sorted)], x) <= 0 THEN Append(sorted, x)
    ELSE Append(InsertCandidate(SubSeq(sorted, 1, Len(sorted) - 1), x), sorted[Len(sorted)])

RECURSIVE SortCandidates(_)
SortCandidates(candidates) ==
    IF candidates = <<>> THEN <<>>
    ELSE InsertCandidate(SortCandidates(SubSeq(candidates, 1, Len(candidates) - 1)),
                         candidates[Len(candidates)])

\* st.getDay() === 0 || st.getDay() === 6 ? 'weekend' : 'weekday'
DayType(t) == IF getDay(DayOf(t)) \in {0, 6} THEN "weekend" ELSE "weekday"

\* the slot of a shift: position, start and end time of day, day type; the
\* "h:mm" strings are carried as minutes of the day
SlotOf(s) ==
    [position |-> IF s.position = "" THEN "Unknown" ELSE s.position,
     startTime |-> MinuteOfDay(s.start),
     endTime |-> MinuteOfDay(s.end),
     dayType |-> DayType(s.start)]

\* the keys of slotCounts in the order they were first inserted
RECURSIVE SlotKeys(_, _)
SlotKeys(keys, shifts) ==
    IF shifts = <<>> THEN keys
    ELSE SlotKeys(IF Some(keys, LAMBDA k : k = SlotOf(Head(shifts)))
                  THEN keys ELSE Append(keys, SlotOf(Head(shifts))),
                  Tail(shifts))

\* .sort((a, b) => b.count - a.count), stable
RECURSIVE InsertTemplate(_, _)
InsertTemplate(sorted, x) ==
    IF sorted = <<>> THEN <<x>>
    ELSE IF sorted[Len(sorted)].count >= x.count THEN Append(sorted, x)
    ELSE Append(InsertTemplate(SubSeq(sorted, 1, Len(sorted) - 1), x), sorted[Len(sorted)])

RECURSIVE SortTemplates(_)
SortTemplates(templates) ==
    IF templates = <<>> THEN <<>>
    ELSE InsertTemplate(SortTemplates(SubSeq(templates, 1, Len(templates) - 1)),
                        templates[Len(templates)])

\* the slots the Clement shifts of the last 28 days ran at least 3 times
getShiftTemplates(c, session, now) ==
    LET fourWeeksAgo == (DayOf(now) - 28) * MinutesPerDay
        shifts == getOrgCalendar(c, session, fourWeeksAgo, now).shifts
        clementShifts == SelectSeq(shifts, LAMBDA s : IncludesClement(LocationName(s.locationId)))
        keys == SlotKeys(<<>>, clementShifts)
        slotCounts == [i \in DOMAIN keys |->
            [position |-> keys[i].position,
             startTime |-> keys[i].startTime,
             endTime |-> keys[i].endTime,
             dayType |-> keys[i].dayType,
             count |-> Len(SelectSeq(clementShifts, LAMBDA s : SlotOf(s) = keys[i]))]]
    IN  SortTemplates(SelectSeq(slotCounts, LAMBDA t : t.count >= MinTemplateCount))

\* the matcher trying the time tier before the position tier
matchesTemplateTimeFirst(shiftToCover, templates) ==
    LET dayType == DayType(shiftToCover.start)
        startTime == MinuteOfDay(shiftToCover.start)
        endTime == MinuteOfDay(shiftToCover.end)
        exact == Find(templates, LAMBDA t :
            /\ t.position = shiftToCover.position
            /\ t.startTime = startTime
            /\ t.endTime = endTime
            /\ t.dayType = dayType)
        posMatch == Find(templates, LAMBDA t :
            t.position = shiftToCover.position /\ t.dayType = dayType)
        timeMatch == Find(templates, LAMBDA t :
            t.startTime = startTime /\ t.endTime = endTime /\ t.dayType = dayType)
    IN  IF exact # <<>> THEN [match |-> "exact", template |-> exact]
        ELSE IF timeMatch # <<>> THEN [match |-> "time", template |-> timeMatch]
        ELSE IF posMatch # <<>> THEN [match |-> "position", template |-> posMatch]
        ELSE [match |-> "none", template |-> <<>>]

\* the best tier only: exact, then position, then time, then none
matchesTemplate(shiftToCover, templates) ==
    LET dayType == DayType(shiftToCover.start)
        startTime == MinuteOfDay(shiftToCover.start)
        endTime == MinuteOfDay(shiftToCover.end)
        exact == Find(templates, LAMBDA t :
            /\ t.position = shiftToCover.position
            /\ t.startTime = startTime
            /\ t.endTime = endTime
            /\ t.dayType = dayType)
        posMatch == Find(templates, LAMBDA t :
            t.position = shiftToCover.position /\ t.dayType = dayType)
        timeMatch == Find(templates, LAMBDA t :
            t.startTime = startTime /\ t.endTime = endTime /\ t.dayType = dayType)
    IN  IF exact # <<>> THEN [match |-> "exact", template |-> exact]
        ELSE IF posMatch # <<>> THEN [match |-> "position", template |-> posMatch]
        ELSE IF timeMatch # <<>> THEN [match |-> "time", template |-> timeMatch]
        ELSE [match |-> "none", template |-> <<>>]

\* the week findCoverage sums over: from the Sunday on or before the target
\* date (getDay days back) through the Saturday after it
CoverWeekData(c, session, targetDate) ==
    LET weekStart == targetDate - getDay(targetDate)
    IN  getOrgCalendar(c, session, weekStart * MinutesPerDay, (weekStart + 7) * MinutesPerDay)

\* the streak window: 6 days each side of the target date
CoverStreakData(c, session, targetDate) ==
    getOrgCalendar(c, session, (targetDate - 6) * MinutesPerDay, (targetDate + 7) * MinutesPerDay)

\* the loop over the pool keeping the assigned employee
CoverOthersEveryone(pool, shiftToCover) == pool

\* the loop over the pool: if (empId === shiftToCover.employeeId) continue
CoverOthers(pool, shiftToCover) ==
    SelectSeq(pool, LAMBDA e : e # shiftToCover.employeeId)

\* a result that lists candidates only for a slot that has run before
CoverageResultTemplateOnly(shiftToCover, templateMatch, candidates) ==
    [op |-> "coverage",
     error |-> FALSE,
     shiftToCover |-> shiftToCover,
     templateMatch |-> IF templateMatch.match # "none"
                       THEN <<[matchType |-> templateMatch.match,
                               position |-> templateMatch.template[1].position,
                               startTime |-> templateMatch.template[1].startTime,
                               endTime |-> templateMatch.template[1].endTime,
                               count |-> templateMatch.template[1].count,
                               dayType |-> templateMatch.template[1].dayType]>>
                       ELSE <<>>,
     candidates |-> IF templateMatch.match # "none" THEN candidates ELSE <<>>]

\* the object findCoverage returns; templateMatch is <<>> for null
CoverageResult(shiftToCover, templateMatch, candidates) ==
    [op |-> "coverage",
     error |-> FALSE,
     shiftToCover |-> shiftToCover,
     templateMatch |-> IF templateMatch.match # "none"
                       THEN <<[matchType |-> templateMatch.match,
                               position |-> templateMatch.template[1].position,
                               startTime |-> templateMatch.template[1].startTime,
                               endTime |-> templateMatch.template[1].endTime,
                               count |-> templateMatch.template[1].count,
                               dayType |-> templateMatch.template[1].dayType]>>
                       ELSE <<>>,
     candidates |-> candidates]

findCoverage(c, session, now, targetDay, targetEmployeeName) ==
    LET targetDate == DayOf(getDayRange(targetDay).start)
        weekData == CoverWeekData(c, session, targetDate)
        streakData == CoverStreakData(c, session, targetDate)
        shiftTemplates == getShiftTemplates(c, session, now)
        targetShifts == SelectSeq(weekData.shifts, LAMBDA s :
            /\ DayOf(s.start) = targetDate
            /\ (targetEmployeeName # "" =>
                    s.employeeId # 0 /\ EMPLOYEE_NAMES[s.employeeId] = targetEmployeeName))
    IN  IF Len(targetShifts) = 0 THEN [op |-> "coverage", error |-> TRUE]
        ELSE LET shiftToCover == targetShifts[1]
                 pool == CoverOthers(CoveragePool(weekData, streakData), shiftToCover)
                 candidates == [i \in DOMAIN pool |->
                     CoverCandidate(pool[i], weekData, streakData, shiftToCover, targetDate)]
             IN  CoverageResult(shiftToCover,
                                matchesTemplate(shiftToCover, shiftTemplates),
                                SortCandidates(candidates))

----------------------------------------------------------------------------
(* GET /conflicts *)

\* leaveByUserDate: the dates a leave is keyed under, one per 24 hours from
\* its start while not past its end
LeaveDates(l) == {DayOf(l.start) + k : k \in {j \in 0..((l.end - l.start) \div MinutesPerDay) :
                                              l.start + j * MinutesPerDay <= l.end}}

Conflict(type, shift) ==
    [type |-> type, employeeId |-> shift.employeeId, date |-> DayOf(shift.start)]

ShiftConflicts(shift, data, assignedShifts) ==
    LET uid == shift.employeeId
        shiftDate == DayOf(shift.start)
        avails == SelectSeq(data.availability, LAMBDA a :
                      a.employeeId = uid /\ DayOf(a.start) = shiftDate)
        sameDay == SelectSeq(assignedShifts, LAMBDA s :
                      /\ s.employeeId = uid
                      /\ DayOf(s.start) = shiftDate
                      /\ s.locationId # shift.locationId
                      /\ s.locationId # 0
                      /\ shift.locationId # 0)
    IN  (IF Some(data.leaves, LAMBDA l : l.employeeId = uid /\ shiftDate \in LeaveDates(l))
         THEN <<Conflict("LEAVE_CONFLICT", shift)>> ELSE <<>>)
        \o (IF /\ Len(avails) > 0
               /\ ~Some(avails, LAMBDA a : a.fullDay)
               /\ ~Some(avails, LAMBDA a : shift.start >= a.start /\ shift.end <= a.end)
            THEN <<Conflict("AVAILABILITY_CONFLICT", shift)>> ELSE <<>>)
        \o (IF uid \in CROSS_LOCATION_POOL /\ Len(sameDay) > 0 /\ shift.locationId = CLEMENT
            THEN <<Conflict("CROSS_LOCATION_CONFLICT", shift)>> ELSE <<>>)

RECURSIVE AllConflicts(_, _, _)
AllConflicts(todo, data, assignedShifts) ==
    IF todo = <<>> THEN <<>>
    ELSE ShiftConflicts(Head(todo), data, assignedShifts)
         \o AllConflicts(Tail(todo), data, assignedShifts)

\* the first conflict of each (type, employee, date)
UniqueConflicts(conflicts) ==
    LET keep == {i \in DOMAIN conflicts : \A j \in 1..(i - 1) : conflicts[j] # conflicts[i]}
        nth(k) == CHOOSE i \in keep : Cardinality({j \in keep : j < i}) = k - 1
    IN  [k \in 1..Cardinality(keep) |-> conflicts[nth(k)]]

\* unique.sort by date, stable
RECURSIVE InsertByDate(_, _)
InsertByDate(sorted, x) ==
    IF sorted = <<>> THEN <<x>>
    ELSE IF sorted[Len(sorted)].date <= x.date THEN Append(sorted, x)
    ELSE Append(InsertByDate(SubSeq(sorted, 1, Len(sorted) - 1), x), sorted[Len(sorted)])

RECURSIVE SortByDate(_)
SortByDate(conflicts) ==
    IF conflicts = <<>> THEN <<>>
    ELSE InsertByDate(SortByDate(SubSeq(conflicts, 1, Len(conflicts) - 1)),
                      conflicts[Len(conflicts)])

\* the scan over now .. the end of the day `days` days on
conflictScan(c, session, now, days) ==
    LET data == getOrgCalendar(c, session, now, (DayOf(now) + days + 1) * MinutesPerDay)
        assignedShifts == SelectSeq(data.shifts, LAMBDA s : s.employeeId # 0)
    IN  [op |-> "conflicts",
         http |-> 200,
         conflicts |-> SortByDate(UniqueConflicts(AllConflicts(assignedShifts, data, assignedShifts)))]

----------------------------------------------------------------------------
(* The calendar snapshots and the requests the model draws from *)

ShiftAs(e, loc, position, day, h1, h2) ==
    [employeeId |-> e, locationId |-> loc, position |-> position,
     start |-> At(day, h1), end |-> At(day, h2)]

Shift(e, loc, day, h1, h2) == ShiftAs(e, loc, "Barista", day, h1, h2)

Leave(e, day, approved) ==
    [employeeId |-> e, start |-> At(day, 0), end |-> At(day, 24), fullDay |-> TRUE,
     approved |-> approved]

Avail(e, day, h1, h2, fullDay) ==
    [employeeId |-> e, start |-> At(day, h1), end |-> At(day, h2), fullDay |-> fullDay]

\* a run of daily 08:00-15:00 Clement shifts ending the day before the target
RunShifts(e, run) == [i \in 1..run |-> Shift(e, CLEMENT, TargetDay - run + i - 1, 8, 15)]

RunLens == {0} \cup ((MaxRun - 2)..MaxRun)

SameDayKinds == {"none", "clement", "ninth", "third"}
SameDayShifts(e, kind) ==
    IF kind = "clement" THEN <<Shift(e, CLEMENT, TargetDay, 13, 19)>>
    ELSE IF kind = "ninth" THEN <<Shift(e, NINTH, TargetDay, 15, 21)>>
    ELSE IF kind = "third" THEN <<Shift(e, ThirdLocation, TargetDay, 15, 21)>>
    ELSE IF kind = "ninthClement"
    THEN <<Shift(e, NINTH, TargetDay, 15, 21), Shift(e, CLEMENT, TargetDay, 6, 8)>>
    ELSE IF kind = "clementThird"
    THEN <<Shift(e, CLEMENT, TargetDay, 15, 21), Shift(e, ThirdLocation, TargetDay, 6, 8)>>
    ELSE IF kind = "ninthThird"
    THEN <<Shift(e, NINTH, TargetDay, 15, 21), Shift(e, ThirdLocation, TargetDay, 6, 8)>>
    ELSE IF kind = "touching" THEN <<Shift(e, CLEMENT, TargetDay, 14, 18)>>
    ELSE IF kind = "earlyThenOverlap"
    THEN <<Shift(e, CLEMENT, TargetDay, 6, 8), Shift(e, CLEMENT, TargetDay, 10, 13)>>
    ELSE <<>>

\* two shifts at two locations on the target date
TwoSiteKinds == {"ninthClement", "clementThird", "ninthThird"}

\* a shift that starts when the covered one ends, and two shifts of which
\* the second overlaps the covered one
DoubleKinds == {"touching", "earlyThenOverlap"}

AvailKinds == {"none", "otherday", "full", "part", "late", "fullLate"}
AvailWindows(e, kind) ==
    IF kind = "otherday" THEN <<Avail(e, TargetDay - 1, 9, 17, FALSE)>>
    ELSE IF kind = "full" THEN <<Avail(e, TargetDay, 0, 24, TRUE)>>
    ELSE IF kind = "part" THEN <<Avail(e, TargetDay, 9, 15, FALSE)>>
    ELSE IF kind = "late" THEN <<Avail(e, TargetDay, 12, 20, FALSE)>>
    ELSE IF kind = "fullLate"
    THEN <<Avail(e, TargetDay, 12, 20, FALSE), Avail(e, TargetDay, 0, 24, TRUE)>>
    ELSE IF kind = "exact" THEN <<Avail(e, TargetDay, 9, 14, FALSE)>>
    ELSE IF kind = "split"
    THEN <<Avail(e, TargetDay, 9, 12, FALSE), Avail(e, TargetDay, 12, 17, FALSE)>>
    ELSE <<>>

\* a window with the bounds of a proposed one, and two adjoining windows
EdgeAvailKinds == {"exact", "split"}

LeaveKinds == {"none", "approved", "pending"}
LeaveGrants(e, kind) ==
    IF kind = "approved" THEN <<Leave(e, TargetDay, TRUE)>>
    ELSE IF kind = "pending" THEN <<Leave(e, TargetDay, FALSE)>>
    ELSE <<>>

\* the second employee of the pool of candidates
OtherKinds == {"absent", "light", "busy"}
OtherShifts(e, kind) ==
    IF kind = "light" THEN <<ShiftAs(e, CLEMENT, "Lead", TargetDay - 2, 8, 15)>>
    ELSE IF kind = "busy" THEN <<Shift(e, CLEMENT, TargetDay, 10, 13)>>
    ELSE <<>>

Subjects == {SARA, JESUS}

Calendar(who, run, same, av, lv, other) ==
    LET o == CHOOSE e \in Subjects : e # who
    IN  [shifts |-> RunShifts(who, run) \o SameDayShifts(who, same)
                    \o <<Shift(HAYDEN, CLEMENT, TargetDay, 9, 14)>> \o OtherShifts(o, other),
         leaves |-> LeaveGrants(who, lv),
         availability |-> AvailWindows(who, av)]

NoWindow == <<<<>>, <<>>>>
Windows == {NoWindow, <<<<9, 0>>, <<14, 0>>>>, <<<<9, 0>>, <<17, 0>>>>}

\* a window that ends before it starts, and one from the first to the last
\* minute of the day
EdgeWindows == {<<<<17, 0>>, <<9, 0>>>>, <<<<0, 0>>, <<23, 59>>>>}

LocationInputs == {<<>>, <<"string", "9th st Pixlcat">>, <<"number", ThirdLocation>>}

Body(employeeId, employee, date, window, location) ==
    [employeeId |-> employeeId, employee |-> employee, date |-> date,
     startTime |-> window[1], endTime |-> window[2], location |-> location]

ValidateBodies ==
    {Body(SARA, "", TargetDay, w, l) : w \in Windows, l \in LocationInputs}
    \cup {Body(SARA, "", TargetDay, w, <<>>) : w \in EdgeWindows}
    \cup {Body(0, "jesus", TargetDay, w, l) : w \in Windows, l \in {<<>>, <<"number", ThirdLocation>>}}
    \cup {Body(0, "nobody", TargetDay, NoWindow, <<>>), Body(SARA, "", 0, NoWindow, <<>>),
          Body(SARA, "", -1, NoWindow, <<>>)}

\* the wall clock of the coverage requests: the morning before the target date
CoverNow == At(TargetDay - 1, 6)

CoverageRequests ==
    {[day |-> TargetDay, name |-> "hayden"], [day |-> TargetDay, name |-> ""],
     [day |-> TargetDay + 1, name |-> "hayden"],
     [day |-> TargetDay - 2, name |-> ""], [day |-> TargetDay - 2, name |-> "jesus"]}

ScanTimes == {At(TargetDay - 1, 6)}

ConsecutiveRequests == {[userId |-> e, date |-> TargetDay] : e \in Subjects}

\* Calendars for the streak analysis: a run of worked days right before the
\* center date and one right after it, the center date worked or not, a
\* detached pair of worked days further back, a second shift on the eve
StreakCenter == TargetDay + 8

StreakCalendar(who, before, after, center, far, double) ==
    [shifts |->
        (IF far THEN <<Shift(who, CLEMENT, StreakCenter - before - 3, 8, 15),
                       Shift(who, CLEMENT, StreakCenter - before - 2, 8, 15)>>
         ELSE <<>>)
        \o [i \in 1..before |-> Shift(who, CLEMENT, StreakCenter - before + i - 1, 8, 15)]
        \o (IF double /\ before > 0
            THEN <<Shift(who, NINTH, StreakCenter - 1, 16, 20)>> ELSE <<>>)
        \o (IF center THEN <<Shift(who, CLEMENT, StreakCenter, 8, 15)>> ELSE <<>>)
        \o [i \in 1..after |-> Shift(who, CLEMENT, StreakCenter + i, 8, 15)]
        \o <<Shift(HAYDEN, CLEMENT, StreakCenter, 16, 20)>>,
     leaves |-> <<>>,
     availability |-> <<>>]

\* Calendars for the template matcher: up to four groups of past Clement
\* shifts (three on weekdays, one on weekend days), each run a chosen number
\* of times, and the shift to cover, on a Thursday and on a Saturday, in a
\* chosen position ("" for none) and at chosen hours
GroupShifts(position, h1, h2, days, count) ==
    [i \in 1..count |-> ShiftAs(DAVID, CLEMENT, position, days[i], h1, h2)]

GroupCounts == {0, MinTemplateCount - 1, MinTemplateCount, MaxGroup}

CoverPositions == {"Barista", "Lead", ""}
CoverHours == {<<8, 15>>, <<9, 14>>, <<10, 12>>}

TemplateCalendar(a, b, c, d, position, hours) ==
    [shifts |->
        GroupShifts("Barista", 8, 15, <<0, 1, 2, 3, 4>>, a)
        \o GroupShifts("Lead", 9, 14, <<0, 1, 2, 3, 4>>, b)
        \o GroupShifts("Lead", 8, 15, <<7, 8, 9, 10, 11>>, c)
        \o GroupShifts("Barista", 9, 14, <<-2, -1, 5, 6, -8>>, d)
        \o <<ShiftAs(HAYDEN, CLEMENT, position, TargetDay - 2, hours[1], hours[2]),
              ShiftAs(HAYDEN, CLEMENT, position, TargetDay, hours[1], hours[2])>>,
     leaves |-> <<>>,
     availability |-> <<>>]

TemplateRequests ==
    {[day |-> TargetDay, name |-> "hayden"], [day |-> TargetDay - 2, name |-> "hayden"]}

\* a calendar with the employee's shifts on a chosen set of the 7 days before
\* the center date
PatternCalendar(who, days) ==
    [shifts |->
        [i \in 1..Cardinality(days) |->
            Shift(who, CLEMENT,
                  CHOOSE d \in days : Cardinality({x \in days : x < d}) = i - 1, 8, 15)]
        \o <<Shift(HAYDEN, CLEMENT, StreakCenter, 16, 20)>>,
     leaves |-> <<>>,
     availability |-> <<>>]

StreakBodies == {Body(e, "", StreakCenter, NoWindow, <<>>) : e \in Subjects}

StreakRequests == {[userId |-> e, date |-> StreakCenter] : e \in Subjects}

StreakCoverageRequests == {[day |-> StreakCenter, name |-> "hayden"]}

----------------------------------------------------------------------------
(* The request handlers at rest, for the background processes' own runs *)
ApiIdle ==
    /\ cal = Calendar(HAYDEN, 0, "none", "none", "none", "absent")
    /\ cachedSession = <<>>
    /\ req = [op |-> "none"]
    /\ resp = [op |-> "none"]
    /\ probe = <<>>

----------------------------------------------------------------------------
(* The in-process daily scheduler: a timer callback every minute that       *)
(* starts the posting of tomorrow's schedule in the posting hour.           *)

POST_HOUR == 17

\* the wall clock runs over MaxDates Pacific dates, the hours around the
\* posting hour, and MaxMinute + 1 callbacks' worth of minutes in each hour
MaxDates == 2
MaxMinute == 2
MaxStarted == 2

SchedulerDates == 1..MaxDates
SchedulerHours == {POST_HOUR - 1, POST_HOUR, POST_HOUR + 1}

NoPosting == [started |-> 0, callbacks |-> 0, startedBy |-> 0, at |-> "none"]

SchedulerIdle ==
    /\ lastPostedDate = 0
    /\ postings = [d \in SchedulerDates |-> NoPosting]
    /\ wallClock = [date |-> 1, hour |-> POST_HOUR - 1, minute |-> 0]

\* now.getHours() === POST_HOUR && _lastPostedDate !== today
ShouldPostEveryCallback(hour, last, today) == hour = POST_HOUR

ShouldPost(hour, last, today) == hour = POST_HOUR /\ last # today

\* the setInterval callback up to its first await: the date is recorded and
\* the calendar fetch is started; postings keeps the history of each date
TimerCallback ==
    LET today == wallClock.date
        seen == IF wallClock.hour = POST_HOUR
                THEN [postings EXCEPT ![today].callbacks = IF @ < MaxStarted THEN @ + 1 ELSE @]
                ELSE postings
    IN  /\ IF ShouldPost(wallClock.hour, lastPostedDate, today)
           THEN /\ lastPostedDate' = today
                /\ postings' = [seen EXCEPT
                       ![today].started = IF @ < MaxStarted THEN @ + 1 ELSE @,
                       ![today].startedBy = IF @ = 0 THEN seen[today].callbacks ELSE @,
                       ![today].at = "calendar"]
           ELSE /\ postings' = seen
                /\ UNCHANGED lastPostedDate
        /\ UNCHANGED <<wallClock, apiVars, monitorVars>>

\* await getOrgCalendar(start, end): the fetch answers or throws
PostCalendar(ok) ==
    /\ \E d \in SchedulerDates :
          /\ postings[d].at = "calendar"
          /\ postings' = [postings EXCEPT ![d].at = IF ok THEN "slack" ELSE "failed"]
    /\ UNCHANGED <<lastPostedDate, wallClock, apiVars, monitorVars>>

\* await postToSlack(text, blocks): the post answers or throws
PostSlack(ok) ==
    /\ \E d \in SchedulerDates :
          /\ postings[d].at = "slack"
          /\ postings' = [postings EXCEPT ![d].at = IF ok THEN "conflicts" ELSE "failed"]
    /\ UNCHANGED <<lastPostedDate, wallClock, apiVars, monitorVars>>

\* await fetch(/cron/check-conflicts): its error is caught on its own
PostConflicts ==
    /\ \E d \in SchedulerDates :
          /\ postings[d].at = "conflicts"
          /\ postings' = [postings EXCEPT ![d].at = "done"]
    /\ UNCHANGED <<lastPostedDate, wallClock, apiVars, monitorVars>>

\* a minute of Pacific wall-clock time passes
Minute ==
    /\ wallClock' =
          IF wallClock.minute < MaxMinute THEN [wallClock EXCEPT !.minute = @ + 1]
          ELSE IF wallClock.hour < POST_HOUR + 1
          THEN [wallClock EXCEPT !.hour = @ + 1, !.minute = 0]
          ELSE [date |-> wallClock.date + 1, hour |-> POST_HOUR - 1, minute |-> 0]
    /\ wallClock'.date \in SchedulerDates
    /\ UNCHANGED <<lastPostedDate, postings, apiVars, monitorVars>>

NextScheduler ==
    \/ TimerCallback
    \/ \E ok \in BOOLEAN : PostCalendar(ok)
    \/ \E ok \in BOOLEAN : PostSlack(ok)
    \/ PostConflicts
    \/ Minute


----------------------------------------------------------------------------
(* The clock monitor (src/sling_optimized_monitor.js): three cron handlers  *)
(* and a reset endpoint over one process-wide monitoringState.  A handler   *)
(* runs to its next await in one step; the other handlers run in between.   *)

\* the cron spacing, the grace after a shift's start, the look-ahead, the end window
TickMinutes == 15
GraceMinutes == 10
LookAheadMinutes == 60
CheckWindowMinutes == 15

\* the clock runs over MaxTicks cron instants; reminders are counted up to MaxSent
MaxTicks == 3
MaxSent == 2

\* getTodaySchedule(): today's shifts, minutes counted from the first start
MonitorSchedule ==
    << [id |-> 1, userId |-> HAYDEN, startTime |-> 0, endTime |-> 30] >>

ShiftIds == {MonitorSchedule[i].id : i \in DOMAIN MonitorSchedule}

\* dmResult.conversationId: the DM service keeps one conversation per user
ConversationOf(userId) == userId

\* the employees findUserByName may find
CoveringEmployees == {SARA}

\* checkClockStatus(userId, time, type): the answer of the time-clock service
checkClockStatus == BOOLEAN

\* a value of activeShifts; defined = FALSE is Map.get(...) === undefined
UndefinedShift ==
    [defined |-> FALSE, employeeId |-> 0, status |-> "none", coveredBy |-> 0,
     clockoutReminderSent |-> FALSE]

\* a handler's place and locals: the loop index, the reply handler's
\* conversationsToRemove, pending (its key, its shiftId, and whether the Map
\* still holds that object), shift / shiftStatus, coveringEmployee, clockedIn
IdleHandler == [at |-> "idle", i |-> 0, remove |-> {}, conversationId |-> 0, shiftId |-> 0,
                detached |-> FALSE, shift |-> UndefinedShift, covering |-> 0,
                clockedIn |-> FALSE]

MonitorIdle ==
    /\ monitoringState = [activeShifts |-> [s \in ShiftIds |-> UndefinedShift],
                          pendingReplies |-> <<>>,
                          resolvedToday |-> {}]
    /\ handlers = [clockin |-> IdleHandler, reply |-> IdleHandler, clockout |-> IdleHandler]
    /\ sentLog = [clockin |-> [s \in ShiftIds |-> 0], clockout |-> [s \in ShiftIds |-> 0]]
    /\ nowTime = 0

\* one more reminder in the log
Counted(n) == IF n < MaxSent THEN n + 1 ELSE MaxSent

\* Map.set on pendingReplies: a known key keeps its place, a new key goes last
PendingHas(pending, conversationId) ==
    \E k \in DOMAIN pending : pending[k].conversationId = conversationId

PendingSet(pending, conversationId, shiftId) ==
    LET entry == [conversationId |-> conversationId, shiftId |-> shiftId, resolved |-> FALSE]
    IN  IF PendingHas(pending, conversationId)
        THEN [k \in DOMAIN pending |->
                 IF pending[k].conversationId = conversationId THEN entry ELSE pending[k]]
        ELSE Append(pending, entry)

\* Map.delete for every conversation of a set
PendingDelete(pending, remove) ==
    SelectSeq(pending, LAMBDA p : p.conversationId \notin remove)

\* ---- GET /cron/smart-clockin-check ----
shouldCheck(ms, shift, now) ==
    /\ shift.startTime <= now + LookAheadMinutes
    /\ now >= shift.startTime + GraceMinutes
    /\ shift.id \notin ms.resolvedToday

\* the next shift of the loop that reaches checkClockStatus, 0 at the end of the loop
ClockinNext(ms, i, now) ==
    LET todo == {j \in DOMAIN MonitorSchedule :
                    /\ j > i
                    /\ shouldCheck(ms, MonitorSchedule[j], now)
                    /\ ms.activeShifts[MonitorSchedule[j].id].status # "monitoring_clockin"}
    IN  IF todo = {} THEN 0 ELSE CHOOSE j \in todo : \A k \in todo : j <= k

ClockinAt(i) ==
    IF i = 0 THEN IdleHandler ELSE [IdleHandler EXCEPT !.at = "clock", !.i = i]

ClockinStart ==
    /\ handlers.clockin.at = "idle"
    /\ handlers' = [handlers EXCEPT !.clockin = [IdleHandler EXCEPT !.at = "schedule"]]
    /\ UNCHANGED <<monitoringState, sentLog, nowTime, apiVars, schedulerVars>>

ClockinSchedule ==
    /\ handlers.clockin.at = "schedule"
    /\ handlers' = [handlers EXCEPT !.clockin = ClockinAt(ClockinNext(monitoringState, 0, nowTime))]
    /\ UNCHANGED <<monitoringState, sentLog, nowTime, apiVars, schedulerVars>>

ClockinClock(clockedIn) ==
    LET i == handlers.clockin.i
        shift == MonitorSchedule[i]
        resolved == [monitoringState EXCEPT !.activeShifts[shift.id] =
                        [UndefinedShift EXCEPT !.defined = TRUE, !.employeeId = shift.userId,
                                               !.status = "clockin_resolved"]]
    IN  /\ handlers.clockin.at = "clock"
        /\ IF clockedIn
           THEN /\ monitoringState' = resolved
                /\ handlers' = [handlers EXCEPT !.clockin = ClockinAt(ClockinNext(resolved, i, nowTime))]
                /\ UNCHANGED sentLog
           ELSE /\ sentLog' = [sentLog EXCEPT !.clockin[shift.id] = Counted(@)]
                /\ handlers' = [handlers EXCEPT !.clockin.at = "dm"]
                /\ UNCHANGED monitoringState
        /\ UNCHANGED <<nowTime, apiVars, schedulerVars>>

ClockinDm ==
    LET i == handlers.clockin.i
        shift == MonitorSchedule[i]
        conversationId == ConversationOf(shift.userId)
        tracked == [monitoringState EXCEPT
                       !.activeShifts[shift.id] =
                           [UndefinedShift EXCEPT !.defined = TRUE, !.employeeId = shift.userId,
                                                  !.status = "monitoring_clockin"],
                       !.pendingReplies = PendingSet(@, conversationId, shift.id)]
        held == /\ handlers.reply.at # "idle"
                /\ handlers.reply.conversationId = conversationId
    IN  /\ handlers.clockin.at = "dm"
        /\ monitoringState' = tracked
        /\ handlers' = [handlers EXCEPT
                           !.clockin = ClockinAt(ClockinNext(tracked, i, nowTime)),
                           !.reply.detached = @ \/ held]
        /\ UNCHANGED <<sentLog, nowTime, apiVars, schedulerVars>>

\* ---- GET /cron/smart-reply-check ----
\* the next unresolved conversation of the loop, 0 at its end
ReplyNext(ms, i) ==
    LET todo == {j \in DOMAIN ms.pendingReplies : j > i /\ ~ms.pendingReplies[j].resolved}
    IN  IF todo = {} THEN 0 ELSE CHOOSE j \in todo : \A k \in todo : j <= k

\* the resolved conversations the loop passes on its way
ReplyPassed(ms, i) ==
    LET j == ReplyNext(ms, i)
    IN  {ms.pendingReplies[k].conversationId :
            k \in {k \in DOMAIN ms.pendingReplies :
                      k > i /\ (j = 0 \/ k < j) /\ ms.pendingReplies[k].resolved}}

\* the handler after the loop went on from entry i; at the end the cleanup runs
ReplyContinue(ms, i, remove) ==
    IF ReplyNext(ms, i) = 0
    THEN IdleHandler
    ELSE [IdleHandler EXCEPT !.at = "messages", !.i = ReplyNext(ms, i),
                             !.remove = remove \cup ReplyPassed(ms, i),
                             !.conversationId = ms.pendingReplies[ReplyNext(ms, i)].conversationId,
                             !.shiftId = ms.pendingReplies[ReplyNext(ms, i)].shiftId]

ReplyCleanup(ms, i, remove) ==
    IF ReplyNext(ms, i) = 0
    THEN [ms EXCEPT !.pendingReplies = PendingDelete(@, remove \cup ReplyPassed(ms, i))]
    ELSE ms

ReplyStart ==
    /\ handlers.reply.at = "idle"
    /\ handlers' = [handlers EXCEPT !.reply = ReplyContinue(monitoringState, 0, {})]
    /\ monitoringState' = ReplyCleanup(monitoringState, 0, {})
    /\ UNCHANGED <<sentLog, nowTime, apiVars, schedulerVars>>

ReplyMessages(reply) ==
    LET h == handlers.reply
    IN  /\ h.at = "messages"
        /\ IF reply = "named"
           THEN /\ handlers' = [handlers EXCEPT !.reply.at = "user"]
                /\ UNCHANGED monitoringState
           ELSE /\ handlers' = [handlers EXCEPT !.reply = ReplyContinue(monitoringState, h.i, h.remove)]
                /\ monitoringState' = ReplyCleanup(monitoringState, h.i, h.remove)
        /\ UNCHANGED <<sentLog, nowTime, apiVars, schedulerVars>>

ReplyUser(covering) ==
    LET h == handlers.reply
    IN  /\ h.at = "user"
        /\ handlers' = [handlers EXCEPT !.reply =
               IF covering = 0
               THEN [h EXCEPT !.at = "unknown"]
               ELSE [h EXCEPT !.at = "clock", !.covering = covering,
                              !.shift = monitoringState.activeShifts[h.shiftId]]]
        /\ UNCHANGED <<monitoringState, sentLog, nowTime, apiVars, schedulerVars>>

\* after the DM about the unknown name the loop goes on
ReplyUnknown ==
    LET h == handlers.reply
    IN  /\ h.at = "unknown"
        /\ handlers' = [handlers EXCEPT !.reply = ReplyContinue(monitoringState, h.i, h.remove)]
        /\ monitoringState' = ReplyCleanup(monitoringState, h.i, h.remove)
        /\ UNCHANGED <<sentLog, nowTime, apiVars, schedulerVars>>

\* shift.employeeId and shift.employeeName throw on a shift read as undefined;
\* the catch answers 500 and the handler ends without its cleanup
ReplyClock(clockedIn) ==
    LET h == handlers.reply
    IN  /\ h.at = "clock"
        /\ handlers' = [handlers EXCEPT !.reply =
               IF h.shift.defined THEN [h EXCEPT !.at = "dm", !.clockedIn = clockedIn]
               ELSE IdleHandler]
        /\ UNCHANGED <<monitoringState, sentLog, nowTime, apiVars, schedulerVars>>

ReplyDm ==
    LET h == handlers.reply
        covered == [h.shift EXCEPT
                       !.status = IF h.clockedIn THEN "monitoring_coverage_clockout"
                                  ELSE "pending_coverage_clockin",
                       !.coveredBy = h.covering]
        marked == [k \in DOMAIN monitoringState.pendingReplies |->
                      IF ~h.detached /\ k = h.i
                      THEN [monitoringState.pendingReplies[k] EXCEPT !.resolved = TRUE]
                      ELSE monitoringState.pendingReplies[k]]
        after == [monitoringState EXCEPT !.activeShifts[h.shiftId] = covered,
                                         !.pendingReplies = marked]
    IN  /\ h.at = "dm"
        /\ handlers' = [handlers EXCEPT !.reply = ReplyContinue(after, h.i, h.remove)]
        /\ monitoringState' = ReplyCleanup(after, h.i, h.remove)
        /\ UNCHANGED <<sentLog, nowTime, apiVars, schedulerVars>>

\* ---- GET /cron/smart-clockout-check ----
withinWindow(shift, now) ==
    IF now >= shift.endTime THEN now - shift.endTime <= CheckWindowMinutes
    ELSE shift.endTime - now <= CheckWindowMinutes

\* the next shift of the loop that reaches checkClockStatus, 0 at the end of the loop
ClockoutNext(ms, i, now) ==
    LET todo == {j \in DOMAIN MonitorSchedule :
                    /\ j > i
                    /\ withinWindow(MonitorSchedule[j], now)
                    /\ MonitorSchedule[j].id \notin ms.resolvedToday}
    IN  IF todo = {} THEN 0 ELSE CHOOSE j \in todo : \A k \in todo : j <= k

ClockoutAt(ms, i) ==
    IF i = 0 THEN IdleHandler
    ELSE [IdleHandler EXCEPT !.at = "clock", !.i = i,
                             !.shift = ms.activeShifts[MonitorSchedule[i].id]]

ClockoutStart ==
    /\ handlers.clockout.at = "idle"
    /\ handlers' = [handlers EXCEPT !.clockout = [IdleHandler EXCEPT !.at = "schedule"]]
    /\ UNCHANGED <<monitoringState, sentLog, nowTime, apiVars, schedulerVars>>

ClockoutSchedule ==
    /\ handlers.clockout.at = "schedule"
    /\ handlers' = [handlers EXCEPT !.clockout =
                       ClockoutAt(monitoringState, ClockoutNext(monitoringState, 0, nowTime))]
    /\ UNCHANGED <<monitoringState, sentLog, nowTime, apiVars, schedulerVars>>

ClockoutClock(clockedOut) ==
    LET h == handlers.clockout
        shift == MonitorSchedule[h.i]
        resolved == [monitoringState EXCEPT !.resolvedToday = @ \cup {shift.id},
                                            !.activeShifts[shift.id] = UndefinedShift]
    IN  /\ h.at = "clock"
        /\ IF clockedOut
           THEN /\ monitoringState' = resolved
                /\ handlers' = [handlers EXCEPT !.clockout =
                                   ClockoutAt(resolved, ClockoutNext(resolved, h.i, nowTime))]
                /\ UNCHANGED sentLog
           ELSE IF ~h.shift.clockoutReminderSent
           THEN /\ sentLog' = [sentLog EXCEPT !.clockout[shift.id] = Counted(@)]
                /\ handlers' = [handlers EXCEPT !.clockout.at = "dm"]
                /\ UNCHANGED monitoringState
           ELSE /\ handlers' = [handlers EXCEPT !.clockout =
                                   ClockoutAt(monitoringState, ClockoutNext(monitoringState, h.i, nowTime))]
                /\ UNCHANGED <<monitoringState, sentLog>>
        /\ UNCHANGED <<nowTime, apiVars, schedulerVars>>

ClockoutDm ==
    LET h == handlers.clockout
        shift == MonitorSchedule[h.i]
        reminded == [monitoringState EXCEPT !.activeShifts[shift.id] =
                        [h.shift EXCEPT !.defined = TRUE, !.clockoutReminderSent = TRUE]]
    IN  /\ h.at = "dm"
        /\ monitoringState' = reminded
        /\ handlers' = [handlers EXCEPT !.clockout =
                           ClockoutAt(reminded, ClockoutNext(reminded, h.i, nowTime))]
        /\ UNCHANGED <<sentLog, nowTime, apiVars, schedulerVars>>

\* ---- GET /cron/reset-daily-state ----
\* the three collections are cleared; a reply loop under way goes on over the
\* emptied Map, and the pending object it holds is no longer the Map's
ResetDailyState ==
    /\ monitoringState' = [activeShifts |-> [s \in ShiftIds |-> UndefinedShift],
                           pendingReplies |-> <<>>,
                           resolvedToday |-> {}]
    /\ handlers' = [handlers EXCEPT !.reply =
                       IF @.at = "idle" THEN @ ELSE [@ EXCEPT !.i = 0, !.detached = TRUE]]
    /\ sentLog' = [clockin |-> [s \in ShiftIds |-> 0], clockout |-> [s \in ShiftIds |-> 0]]
    /\ UNCHANGED <<nowTime, apiVars, schedulerVars>>

\* the next cron instant; the handlers of one instant have answered by then
Tick ==
    /\ nowTime < MaxTicks * TickMinutes
    /\ \A h \in {"clockin", "reply", "clockout"} : handlers[h].at = "idle"
    /\ nowTime' = nowTime + TickMinutes
    /\ UNCHANGED <<monitoringState, handlers, sentLog, apiVars, schedulerVars>>

NextMonitor ==
    \/ ClockinStart
    \/ ClockinSchedule
    \/ \E clockedIn \in checkClockStatus : ClockinClock(clockedIn)
    \/ ClockinDm
    \/ ReplyStart
    \/ \E reply \in {"none", "noName", "named"} : ReplyMessages(reply)
    \/ \E covering \in {0} \cup CoveringEmployees : ReplyUser(covering)
    \/ ReplyUnknown
    \/ \E clockedIn \in checkClockStatus : ReplyClock(clockedIn)
    \/ ReplyDm
    \/ ClockoutStart
    \/ ClockoutSchedule
    \/ \E clockedOut \in checkClockStatus : ClockoutClock(clockedOut)
    \/ ClockoutDm
    \/ ResetDailyState
    \/ Tick

InitMonitor ==
    /\ ApiIdle
    /\ MonitorIdle
    /\ SchedulerIdle

SpecMonitor == InitMonitor /\ [][NextMonitor]_vars

\* The scheduler's own runs
InitScheduler ==
    /\ ApiIdle
    /\ MonitorIdle
    /\ SchedulerIdle

SpecScheduler == InitScheduler /\ [][NextScheduler]_vars

----------------------------------------------------------------------------
(* The state machine *)

Init ==
    /\ \/ \E who \in Subjects, run \in RunLens, same \in SameDayKinds, av \in AvailKinds,
             lv \in LeaveKinds, other \in OtherKinds :
               cal = Calendar(who, run, same, av, lv, other)
       \/ \E who \in Subjects, same \in {"none"} \cup TwoSiteKinds \cup DoubleKinds,
             av \in {"none"} \cup EdgeAvailKinds :
               cal = Calendar(who, 0, same, av, "none", "absent")
    /\ cachedSession = <<>>
    /\ req = [op |-> "none"]
    /\ resp = [op |-> "none"]
    /\ probe = <<>>
    /\ MonitorIdle
    /\ SchedulerIdle

\* the handlers; probe is the history the idempotence check reads
ValidateReq(body) ==
    /\ ValidateStep(body)
    /\ req' = [op |-> "validate", body |-> body]
    /\ UNCHANGED <<cal, monitorVars, schedulerVars>>

FindCoverageReq(r) ==
    /\ cachedSession' = getSessionInfo(cachedSession)
    /\ resp' = findCoverage(cal, cachedSession'[1], CoverNow, r.day, r.name)
    /\ req' = [op |-> "coverage", day |-> r.day, name |-> r.name]
    /\ UNCHANGED <<cal, monitorVars, schedulerVars>>

ConflictsReq(now) ==
    /\ cachedSession' = getSessionInfo(cachedSession)
    /\ resp' = conflictScan(cal, cachedSession'[1], now, 7)
    /\ req' = [op |-> "conflicts", now |-> now]
    /\ UNCHANGED <<cal, monitorVars, schedulerVars>>

ConsecutiveReq(r) ==
    /\ cachedSession' = getSessionInfo(cachedSession)
    /\ resp' = analyzeConsecutive(cal, cachedSession'[1], r.userId, r.date)
    /\ req' = [op |-> "consecutive", userId |-> r.userId, date |-> r.date]
    /\ UNCHANGED <<cal, monitorVars, schedulerVars>>

Validate(body) == ValidateReq(body) /\ UNCHANGED probe

Consecutive(r) == ConsecutiveReq(r) /\ UNCHANGED probe

FindCoverage(r) == FindCoverageReq(r) /\ UNCHANGED probe

Conflicts(now) == ConflictsReq(now) /\ UNCHANGED probe

Next ==
    \/ \E body \in ValidateBodies : Validate(body)
    \/ \E r \in CoverageRequests : FindCoverage(r)
    \/ \E now \in ScanTimes : Conflicts(now)
    \/ \E r \in ConsecutiveRequests : Consecutive(r)

Spec == Init /\ [][Next]_vars

\* The streak computations on calendars of runs around a center date
InitStreak ==
    /\ \/ \E who \in Subjects, before \in 0..MaxBefore, after \in 0..MaxAfter,
             center \in BOOLEAN, far \in BOOLEAN, double \in BOOLEAN :
               cal = StreakCalendar(who, before, after, center, far, double)
       \/ \E who \in Subjects, days \in SUBSET ((StreakCenter - 7)..(StreakCenter - 1)) :
               cal = PatternCalendar(who, days)
    /\ cachedSession = <<>>
    /\ req = [op |-> "none"]
    /\ resp = [op |-> "none"]
    /\ probe = <<>>
    /\ MonitorIdle
    /\ SchedulerIdle

NextStreak ==
    \/ \E body \in StreakBodies : Validate(body)
    \/ \E r \in StreakRequests : Consecutive(r)
    \/ \E r \in StreakCoverageRequests : FindCoverage(r)

SpecStreak == InitStreak /\ [][NextStreak]_vars

\* The streak analysis on a server of either zone
ConsecutiveOn(zone, r) ==
    /\ cachedSession' = getSessionInfo(cachedSession)
    /\ resp' = analyzeConsecutiveOn(zone, cal, cachedSession'[1], r.userId, r.date)
    /\ req' = [op |-> "consecutive", userId |-> r.userId, date |-> r.date, zone |-> zone]
    /\ UNCHANGED <<cal, probe, monitorVars, schedulerVars>>

NextZone == \E zone \in ServerZones, r \in StreakRequests : ConsecutiveOn(zone, r)

SpecZone == InitStreak /\ [][NextZone]_vars

\* The template matcher on calendars of past shift groups
InitTemplate ==
    /\ \E a \in GroupCounts, b \in GroupCounts, c \in GroupCounts,
          d \in {0, MinTemplateCount}, position \in CoverPositions, hours \in CoverHours :
            cal = TemplateCalendar(a, b, c, d, position, hours)
    /\ cachedSession = <<>>
    /\ req = [op |-> "none"]
    /\ resp = [op |-> "none"]
    /\ probe = <<>>
    /\ MonitorIdle
    /\ SchedulerIdle

NextTemplate == \E r \in TemplateRequests : FindCoverage(r)

SpecTemplate == InitTemplate /\ [][NextTemplate]_vars

\* The same handlers with the history kept: the first accepted Validate request
\* and its response, and whether another request was served since.
InitIdem ==
    /\ \E who \in Subjects, run \in RunLens, same \in {"none", "ninth"},
          av \in {"none", "late"} :
            cal = Calendar(who, run, same, av, "none", "absent")
    /\ cachedSession = <<>>
    /\ req = [op |-> "none"]
    /\ resp = [op |-> "none"]
    /\ probe = <<>>
    /\ MonitorIdle
    /\ SchedulerIdle

ValidateTracked(body) ==
    /\ ValidateReq(body)
    /\ probe' = IF probe = <<>> /\ ~ValidateRejected(body) /\ ~ValidateDateUnreadable(body)
                THEN <<[body |-> body, resp |-> resp', between |-> FALSE]>>
                ELSE probe

Between == IF probe = <<>> THEN probe ELSE <<[probe[1] EXCEPT !.between = TRUE]>>

FindCoverageTracked(r) == FindCoverageReq(r) /\ probe' = Between

ConflictsTracked(now) == ConflictsReq(now) /\ probe' = Between

NextIdem ==
    \/ \E body \in ValidateBodies : ValidateTracked(body)
    \/ \E r \in CoverageRequests : FindCoverageTracked(r)
    \/ \E now \in ScanTimes : ConflictsTracked(now)

SpecIdem == InitIdem /\ [][NextIdem]_vars

----------------------------------------------------------------------------
(* What the claims read off a state *)

\* the last response is a verdict of Validate (the request passed the input checks)
IsVerdict == resp.op = "validate" /\ resp.http = 200

\* the last response is a candidate list of findCoverage
IsCoverage == resp.op = "coverage" /\ ~resp.error

\* the calendar as the organisation's own session reads it
OwnSession == getSessionInfo(<<>>)[1]
DayFacts(date) ==
    getOrgCalendar(cal, OwnSession, getDayRange(date).start, getDayRange(date).end)

HasSeverity(list, severity) == \E i \in DOMAIN list : list[i].severity = severity

\* the employee's records of the snapshot that lie on the date
ShiftsOn(e, date) == {i \in DOMAIN cal.shifts :
    cal.shifts[i].employeeId = e /\ DayOf(cal.shifts[i].start) = date}
AvailsOn(e, date) == {i \in DOMAIN cal.availability :
    cal.availability[i].employeeId = e /\ DayOf(cal.availability[i].start) = date}
LeavesOn(e, date) == {i \in DOMAIN cal.leaves :
    /\ cal.leaves[i].employeeId = e
    /\ DayOf(cal.leaves[i].start) <= date
    /\ cal.leaves[i].end > date * MinutesPerDay}
HasFullDayAvail(e, date) == \E i \in AvailsOn(e, date) : cal.availability[i].fullDay

\* the place of an employee in the pool of candidates before the sort
PoolPlace(e, date) ==
    LET pool == CoveragePool(CoverWeekData(cal, OwnSession, date),
                             CoverStreakData(cal, OwnSession, date))
    IN  CHOOSE i \in DOMAIN pool : pool[i] = e

----------------------------------------------------------------------------
(* C1: every verdict's status follows the strict priority over the lists:   *)
(* BLOCKED iff some violation is RED; NEEDS_APPROVAL iff none is RED and    *)
(* some is ORANGE; UNCONFIRMED iff none is RED or ORANGE and there is a     *)
(* warning; APPROVED iff there is no RED, no ORANGE and no warning.         *)
C1_StatusPriority ==
    IsVerdict =>
        LET red == HasSeverity(resp.violations, "RED")
            orange == HasSeverity(resp.violations, "ORANGE")
            warned == Len(resp.warnings) > 0
        IN  /\ resp.status = "BLOCKED" <=> red
            /\ resp.status = "NEEDS_APPROVAL" <=> (~red /\ orange)
            /\ resp.status = "UNCONFIRMED" <=> (~red /\ ~orange /\ warned)
            /\ resp.status = "APPROVED" <=> (~red /\ ~orange /\ ~warned)

\* a verdict with a RED and an ORANGE violation and a warning at once
C1_Witness ==
    /\ IsVerdict
    /\ HasSeverity(resp.violations, "RED")
    /\ HasSeverity(resp.violations, "ORANGE")
    /\ Len(resp.warnings) > 0
    /\ resp.status = "BLOCKED"

(* C2: Validate never short-circuits: the verdict carries the rule code of  *)
(* every gate whose condition holds on the request and the calendar,        *)
(* whatever the other gates produced; an employee on leave who exceeds the  *)
(* weekly cap and reaches the hard-block streak gets LEAVE-001, HOURS-001   *)
(* and CONSEC-001 in one verdict.                                           *)
C2_AllGatesReported ==
    IsVerdict =>
        LET body == req.body
            e == resp.employeeId
            day == DayFacts(body.date)
            fired == Rules(Gate1Violations(e, day, body))
                     \cup Rules(Gate2Violations(e, day, TargetLocId(body.location)))
                     \cup Rules(Gate3Violations(resp.weeklyMinutes, ProposedMinutes(body)))
                     \cup Rules(Gate4Violations(resp.consecutiveDays))
        IN  /\ fired \subseteq Rules(resp.violations)
            /\ Rules(Gate1Warnings(e, day, body)) \subseteq Rules(resp.warnings)
            /\ (/\ LeavesOn(e, body.date) # {}
                /\ resp.projectedMinutes > MAX_WEEKLY_HOURS * 60
                /\ resp.consecutiveDays >= MAX_CONSECUTIVE_DAYS)
               => {"LEAVE-001", "HOURS-001", "CONSEC-001"} \subseteq Rules(resp.violations)

\* the verdict of an employee on leave, over the cap and at the hard-block
\* streak, with all three rule codes
C2_Witness ==
    /\ IsVerdict
    /\ LeavesOn(resp.employeeId, req.body.date) # {}
    /\ resp.projectedMinutes > MAX_WEEKLY_HOURS * 60
    /\ resp.consecutiveDays >= MAX_CONSECUTIVE_DAYS
    /\ {"LEAVE-001", "HOURS-001", "CONSEC-001"} \subseteq Rules(resp.violations)

(* C3: the scenario of an employee with shifts on Monday to Friday, no      *)
(* availability record and no leave for Saturday, validated for Saturday    *)
(* within the weekly cap and with no cross-location shift.                  *)
C3_Scenario ==
    /\ IsVerdict
    /\ getDay(req.body.date) = 6
    /\ WorkDates(resp.employeeId, cal.shifts) = (req.body.date - 5)..(req.body.date - 1)
    /\ AvailsOn(resp.employeeId, req.body.date) = {}
    /\ LeavesOn(resp.employeeId, req.body.date) = {}
    /\ HasWindow(req.body)
    /\ resp.projectedMinutes <= MAX_WEEKLY_HOURS * 60
    /\ "XLOC-001" \notin Rules(resp.violations)

\* C3 as stated: the count is 6, the streak does not lead to NEEDS_APPROVAL,
\* the availability warning is there and the status is UNCONFIRMED
C3_AsClaimed ==
    C3_Scenario =>
        /\ resp.consecutiveDays = 6
        /\ "AVAIL-FALLBACK" \in Rules(resp.warnings)
        /\ resp.status = "UNCONFIRMED"

\* C3 amended: the count is 6, which reaches the warn threshold: the verdict
\* carries the ORANGE violation CONSEC-002 with the YELLOW availability
\* warning, and the status is NEEDS_APPROVAL
C3_StreakOfSixNeedsApproval ==
    C3_Scenario =>
        /\ resp.consecutiveDays = 6
        /\ resp.violations = <<Violation("CONSEC-002", "ORANGE")>>
        /\ resp.warnings = <<Violation("AVAIL-FALLBACK", "YELLOW")>>
        /\ resp.status = "NEEDS_APPROVAL"

C3_Witness == C3_Scenario /\ resp.status = "NEEDS_APPROVAL"

(* C4: a pool employee with a shift at location A on the date is blocked    *)
(* (XLOC-001, status BLOCKED) at any other location B, for every pair of    *)
(* distinct locations and every proposed time.                              *)
C4_AnyOtherLocationBlocks ==
    (/\ IsVerdict
     /\ resp.employeeId \in CROSS_LOCATION_POOL
     /\ \E i \in ShiftsOn(resp.employeeId, req.body.date) :
            cal.shifts[i].locationId \notin {0, resp.locationId})
    => /\ "XLOC-001" \in Rules(resp.violations)
       /\ resp.status = "BLOCKED"

(* C5: the overtime check is strict, in Validate and in findCoverage: the   *)
(* overtime violation or reason is there iff the projected weekly hours     *)
(* (current plus the proposed shift's) are strictly above 40; at exactly 40 *)
(* there is none.                                                           *)
C5_OvertimeStrict ==
    /\ IsVerdict =>
        /\ resp.projectedMinutes = resp.weeklyMinutes + ProposedMinutes(req.body)
        /\ "HOURS-001" \in Rules(resp.violations) <=> resp.projectedMinutes > 40 * 60
    /\ IsCoverage =>
        \A i \in DOMAIN resp.candidates :
            LET c == resp.candidates[i]
            IN  /\ c.projectedMinutes
                       = c.weeklyMinutes + (resp.shiftToCover.end - resp.shiftToCover.start)
                /\ (\E k \in DOMAIN c.reasons : c.reasons[k] = "HOURS_CAP")
                       <=> c.projectedMinutes > 40 * 60

\* a verdict whose projected hours are exactly 40, with a proposed shift
C5_Witness ==
    /\ IsVerdict
    /\ ProposedMinutes(req.body) > 0
    /\ resp.projectedMinutes = 40 * 60
    /\ "HOURS-001" \notin Rules(resp.violations)

(* C6: exceeding the weekly cap asks for approval and never blocks by       *)
(* itself: a verdict whose only violation is the overtime one is ORANGE and *)
(* NEEDS_APPROVAL, and findCoverage does not make a candidate ineligible    *)
(* for projected hours above the cap alone.                                 *)
C6_OvertimeNeverBlocks ==
    /\ (IsVerdict /\ Rules(resp.violations) = {"HOURS-001"}) =>
        /\ ~HasSeverity(resp.violations, "RED")
        /\ resp.status = "NEEDS_APPROVAL"
    /\ IsCoverage =>
        \A i \in DOMAIN resp.candidates :
            resp.candidates[i].reasons = <<"HOURS_CAP">> => resp.candidates[i].available

(* C7: missing availability never blocks: with no availability record for   *)
(* the target date and no leave, Validate adds the YELLOW warning and no    *)
(* availability violation, and findCoverage adds no availability reason,    *)
(* also when the employee has availability on other days of the week.       *)
C7_MissingAvailabilityNeverBlocks ==
    /\ (/\ IsVerdict
        /\ AvailsOn(resp.employeeId, req.body.date) = {}
        /\ LeavesOn(resp.employeeId, req.body.date) = {}) =>
        /\ {"AVAIL-001", "LEAVE-001"} \cap Rules(resp.violations) = {}
        /\ Rules(resp.warnings) = {"AVAIL-FALLBACK"}
    /\ IsCoverage =>
        \A i \in DOMAIN resp.candidates :
            LET c == resp.candidates[i]
            IN  (/\ AvailsOn(c.employeeId, req.day) = {}
                 /\ LeavesOn(c.employeeId, req.day) = {}) =>
                \A k \in DOMAIN c.reasons : c.reasons[k] \notin {"NO_AVAIL_SET", "AVAIL_NO_FIT"}

(* C8: a full-day availability window on the target date satisfies the      *)
(* availability gate for every proposed time and whatever partial windows   *)
(* the date has: no AVAIL-001 in Validate, no availability reason in        *)
(* findCoverage, no AVAILABILITY_CONFLICT in the conflict scan.             *)
C8_FullDayAlwaysFits ==
    /\ (IsVerdict /\ HasFullDayAvail(resp.employeeId, req.body.date)) =>
        "AVAIL-001" \notin Rules(resp.violations)
    /\ IsCoverage =>
        \A i \in DOMAIN resp.candidates :
            HasFullDayAvail(resp.candidates[i].employeeId, req.day) =>
                \A k \in DOMAIN resp.candidates[i].reasons :
                    resp.candidates[i].reasons[k] \notin {"NO_AVAIL_SET", "AVAIL_NO_FIT"}
    /\ resp.op = "conflicts" =>
        \A i \in DOMAIN resp.conflicts :
            resp.conflicts[i].type = "AVAILABILITY_CONFLICT" =>
                ~HasFullDayAvail(resp.conflicts[i].employeeId, resp.conflicts[i].date)

\* a verdict for a proposed window that no partial window of the date
\* contains, beside a full-day window, with no availability violation
C8_Witness ==
    /\ IsVerdict
    /\ HasWindow(req.body)
    /\ HasFullDayAvail(resp.employeeId, req.body.date)
    /\ \E i \in AvailsOn(resp.employeeId, req.body.date) :
            /\ ~cal.availability[i].fullDay
            /\ MinutesOf(req.body.startTime) < MinuteOfDay(cal.availability[i].start)
    /\ "AVAIL-001" \notin Rules(resp.violations)

(* C9: in the candidate list of findCoverage every eligible candidate comes *)
(* before every ineligible one, whatever their projected weekly hours.      *)
C9_EligibleFirst ==
    IsCoverage =>
        \A i, j \in DOMAIN resp.candidates :
            (resp.candidates[i].available /\ ~resp.candidates[j].available) => i < j

\* an eligible candidate listed before an ineligible one that has fewer
\* projected hours and entered the pool first
C9_Witness ==
    /\ IsCoverage
    /\ \E i, j \in DOMAIN resp.candidates :
        /\ i < j
        /\ resp.candidates[i].available
        /\ ~resp.candidates[j].available
        /\ resp.candidates[i].projectedMinutes > resp.candidates[j].projectedMinutes
        /\ PoolPlace(resp.candidates[j].employeeId, req.day)
               < PoolPlace(resp.candidates[i].employeeId, req.day)

(* C10: Validate is idempotent: a later evaluation of the request evaluated *)
(* first, on the same calendar snapshot and with any other requests served  *)
(* in between, returns the same status, violations and warnings; the        *)
(* session cache the first evaluation fills changes nothing.                *)
C10_ValidateIdempotent ==
    (/\ probe # <<>>
     /\ req.op = "validate"
     /\ req.body = probe[1].body)
    => resp = probe[1].resp

\* the probed request evaluated again after another request was served
C10_Witness ==
    /\ probe # <<>>
    /\ probe[1].between
    /\ req.op = "validate"
    /\ req.body = probe[1].body
    /\ resp = probe[1].resp
    /\ resp.http = 200
    /\ Len(resp.violations) > 0

(* C11: Validate answers every invalid input with an error and no verdict:  *)
(* an employee that is missing or cannot be resolved, a date that is        *)
(* missing or cannot be read, and a proposed window whose end time is not   *)
(* after its start time.                                                    *)
C11_InvalidInputRejected ==
    (/\ req.op = "validate"
     /\ \/ ValidateUserId(req.body) = 0
        \/ req.body.date <= 0
        \/ (HasWindow(req.body)
            /\ MinutesOf(req.body.endTime) <= MinutesOf(req.body.startTime)))
    => resp.op = "validate" /\ resp.http # 200

\* the snapshot with one more shift of the employee on the date
CalWithShift(e, date) ==
    [cal EXCEPT !.shifts = Append(@, Shift(e, CLEMENT, date, 8, 15))]

\* the worked days of the snapshot immediately before and after a date
RunBefore(e, date) ==
    Cardinality({k \in 1..Len(cal.shifts) :
        \A j \in 1..k : (date - j) \in WorkDates(e, cal.shifts)})
RunAfter(e, date) ==
    Cardinality({k \in 1..Len(cal.shifts) :
        \A j \in 1..k : (date + j) \in WorkDates(e, cal.shifts)})

(* C12: AnalyzeConsecutive on a center date the employee does not work      *)
(* returns a current streak that does not count the date (0), and with a    *)
(* shift injected on that date the current streak is 1 plus the worked days *)
(* immediately before plus the worked days immediately after the date.      *)
C12_InjectedShiftJoinsRun ==
    (/\ resp.op = "consecutive"
     /\ req.date \notin WorkDates(req.userId, cal.shifts))
    => /\ resp.currentStreak = 0
       /\ analyzeConsecutive(CalWithShift(req.userId, req.date), OwnSession,
                             req.userId, req.date).currentStreak
              = 1 + RunBefore(req.userId, req.date) + RunAfter(req.userId, req.date)

\* C12 with the run inside the 10 days each side that the handler fetches
C12_WithinWindow ==
    (/\ resp.op = "consecutive"
     /\ req.date \notin WorkDates(req.userId, cal.shifts)
     /\ RunBefore(req.userId, req.date) <= 10
     /\ RunAfter(req.userId, req.date) <= 10)
    => /\ resp.currentStreak = 0
       /\ analyzeConsecutive(CalWithShift(req.userId, req.date), OwnSession,
                             req.userId, req.date).currentStreak
              = 1 + RunBefore(req.userId, req.date) + RunAfter(req.userId, req.date)

\* the templates as of the coverage request, and whether one of them matches
\* the covered shift at some tier
TemplatesNow == getShiftTemplates(cal, OwnSession, CoverNow)
SomeTierMatches(shift) ==
    \E i \in DOMAIN TemplatesNow :
        LET t == TemplatesNow[i]
        IN  /\ t.dayType = DayType(shift.start)
            /\ \/ t.position = shift.position
               \/ (t.startTime = MinuteOfDay(shift.start) /\ t.endTime = MinuteOfDay(shift.end))

\* the eligibility pool of the request without the covered employee
OthersInPool(date, covered) ==
    LET pool == CoveragePool(CoverWeekData(cal, OwnSession, date),
                             CoverStreakData(cal, OwnSession, date))
    IN  {pool[i] : i \in DOMAIN pool} \ {covered}

C13_Matched == IsCoverage /\ resp.templateMatch # <<>>

(* C14: the leave gate blocks exactly on approved leave: the verdict has    *)
(* LEAVE-001 iff a leave grant of the employee with the approval flag true  *)
(* covers the date; a pending grant gives no leave violation.               *)
C14_LeaveBlocksIffApproved ==
    IsVerdict =>
        ("LEAVE-001" \in Rules(resp.violations)
            <=> \E i \in LeavesOn(resp.employeeId, req.body.date) : cal.leaves[i].approved)

(* C15: gate 1 gives one outcome: a verdict never has the leave violation   *)
(* LEAVE-001 together with the availability violation AVAIL-001 or with the *)
(* availability-unconfirmed warning.                                        *)
C15_OneOutcome ==
    (IsVerdict /\ "LEAVE-001" \in Rules(resp.violations)) =>
        /\ "AVAIL-001" \notin Rules(resp.violations)
        /\ "AVAIL-FALLBACK" \notin Rules(resp.warnings)

\* the half of C15 about the warning
C15_NoWarningWithLeave ==
    (IsVerdict /\ "LEAVE-001" \in Rules(resp.violations)) =>
        "AVAIL-FALLBACK" \notin Rules(resp.warnings)

\* a window of the snapshot contains the proposed window, by minute of day
WindowContains(i, body) ==
    /\ MinutesOf(body.startTime) >= MinuteOfDay(cal.availability[i].start)
    /\ MinutesOf(body.endTime) <= MinuteOfDay(cal.availability[i].end)

C16_EqualBoundsFit ==
    /\ IsVerdict
    /\ HasWindow(req.body)
    /\ \E i \in AvailsOn(resp.employeeId, req.body.date) :
        /\ MinutesOf(req.body.startTime) = MinuteOfDay(cal.availability[i].start)
        /\ MinutesOf(req.body.endTime) = MinuteOfDay(cal.availability[i].end)
    /\ "AVAIL-001" \notin Rules(resp.violations)

\* the located shifts of the employee on the date, and whether two of them
\* are at distinct locations
LocatedShiftsOn(e, date) == {i \in ShiftsOn(e, date) : cal.shifts[i].locationId # 0}
TwoSitesOn(e, date) ==
    \E i, j \in LocatedShiftsOn(e, date) : cal.shifts[i].locationId # cal.shifts[j].locationId

\* the dates of the shifts the conflict scan fetched
ScannedDates ==
    {DayOf(cal.shifts[i].start) : i \in {j \in DOMAIN cal.shifts :
        InRange(cal.shifts[j], req.now, (DayOf(req.now) + 7 + 1) * MinutesPerDay)}}

CrossLocationReported(e, date) ==
    \E i \in DOMAIN resp.conflicts :
        resp.conflicts[i] = [type |-> "CROSS_LOCATION_CONFLICT", employeeId |-> e, date |-> date]

(* C17: employees outside the cross-location pool are exempt: whatever      *)
(* shifts they hold at other locations on the date, Validate adds no        *)
(* XLOC-001 and the conflict scan reports no CROSS_LOCATION_CONFLICT.       *)
C17_NonPoolExempt ==
    /\ (IsVerdict /\ resp.employeeId \notin CROSS_LOCATION_POOL) =>
        "XLOC-001" \notin Rules(resp.violations)
    /\ resp.op = "conflicts" =>
        \A i \in DOMAIN resp.conflicts :
            resp.conflicts[i].type = "CROSS_LOCATION_CONFLICT" =>
                resp.conflicts[i].employeeId \in CROSS_LOCATION_POOL

\* a verdict for an employee outside the pool who has a shift at 9th st on
\* the date and is proposed at Clement: no XLOC-001
C17_Witness ==
    /\ IsVerdict
    /\ resp.employeeId \notin CROSS_LOCATION_POOL
    /\ resp.locationId = CLEMENT
    /\ \E i \in ShiftsOn(resp.employeeId, req.body.date) : cal.shifts[i].locationId = NINTH
    /\ "XLOC-001" \notin Rules(resp.violations)

\* a scan over an employee outside the pool with shifts at two locations on
\* one date: nothing reported
C17_ScanWitness ==
    /\ resp.op = "conflicts"
    /\ \E d \in ScannedDates : TwoSitesOn(JESUS, d) /\ ~CrossLocationReported(JESUS, d)

\* the snapshot with the locations of the employee's shifts of the date
\* changed to loc
CalRelocated(e, date, loc) ==
    [cal EXCEPT !.shifts = [i \in DOMAIN cal.shifts |->
        IF i \in ShiftsOn(e, date) THEN [cal.shifts[i] EXCEPT !.locationId = loc]
        ELSE cal.shifts[i]]]

\* the conflict scan reports a pool employee on a date iff the employee has
\* two shifts at distinct locations that date
C18_ScanSymmetric ==
    resp.op = "conflicts" =>
        \A e \in CROSS_LOCATION_POOL, d \in ScannedDates :
            CrossLocationReported(e, d) <=> TwoSitesOn(e, d)

\* Validate's cross-location result for an existing shift at A and a proposal
\* at B is its result for an existing shift at B and a proposal at A
C18_ValidateSymmetric ==
    (/\ IsVerdict
     /\ resp.employeeId \in CROSS_LOCATION_POOL
     /\ Cardinality(LocatedShiftsOn(resp.employeeId, req.body.date)) = 1) =>
        LET e == resp.employeeId
            a == cal.shifts[CHOOSE i \in LocatedShiftsOn(e, req.body.date) : TRUE].locationId
            b == resp.locationId
            swapped == ValidateVerdict(CalRelocated(e, req.body.date, b), OwnSession,
                                       [req.body EXCEPT !.location = <<"number", a>>])
        IN  a # b =>
                ("XLOC-001" \in Rules(resp.violations)
                    <=> "XLOC-001" \in Rules(swapped.violations))

(* C18: cross-location detection is symmetric in the two locations: the     *)
(* scan reports CROSS_LOCATION_CONFLICT for a pool employee and a date iff  *)
(* the employee has two shifts that date with distinct non-null locations,  *)
(* whichever of them is Clement and also when neither is; and Validate's    *)
(* result for (existing at A, proposed at B) is its result for (existing at *)
(* B, proposed at A).                                                       *)
C18_CrossLocationSymmetric == C18_ScanSymmetric /\ C18_ValidateSymmetric

\* the dates that count as worked for Validate's streak: those of the
\* employee's shifts in the window fetched around the date, and the date
StreakWorked(e, date) ==
    WorkDates(e, getOrgCalendar(cal, OwnSession, (date - 8) * MinutesPerDay,
                                (date + 8) * MinutesPerDay).shifts) \cup {date}

\* the maximal run of consecutive dates of a set around a date of the set
RunAround(dates, date) ==
    {d \in dates : \A x \in (IF d < date THEN d ELSE date)..(IF d < date THEN date ELSE d) :
                       x \in dates}

(* C19: the consecutive-day count of a verdict is the length of the maximal *)
(* run of consecutive dates that contains the target date, a date being     *)
(* worked iff the employee has a shift on it in the fetched window or it is *)
(* the target date; several shifts on a date count once and the count is at *)
(* least 1.                                                                 *)
C19_StreakIsMaximalRun ==
    IsVerdict =>
        /\ resp.consecutiveDays
               = Cardinality(RunAround(StreakWorked(resp.employeeId, req.body.date),
                                       req.body.date))
        /\ resp.consecutiveDays >= 1

\* a verdict on a date with worked days on both sides, two shifts on the
\* eve, and a worked day beyond the fetched window that is not counted
C19_Witness ==
    /\ IsVerdict
    /\ RunBefore(resp.employeeId, req.body.date) > 8
    /\ RunAfter(resp.employeeId, req.body.date) >= 1
    /\ Cardinality(ShiftsOn(resp.employeeId, req.body.date - 1)) = 2
    /\ resp.consecutiveDays = 1 + 8 + RunAfter(resp.employeeId, req.body.date)

(* C20: the hard-block streak threshold is a true block: when the run that  *)
(* includes the target date has length >= 7 the verdict has the RED         *)
(* violation CONSEC-001 and status BLOCKED whatever the other gates give;   *)
(* AnalyzeConsecutive reports hardBlock iff currentStreak >= 7 and          *)
(* needsApproval iff 6 <= currentStreak < 7, never both.                    *)
C20_HardBlockIsBlock ==
    /\ (/\ IsVerdict
        /\ 1 + RunBefore(resp.employeeId, req.body.date)
             + RunAfter(resp.employeeId, req.body.date) >= 7) =>
        /\ \E i \in DOMAIN resp.violations :
               resp.violations[i] = Violation("CONSEC-001", "RED")
        /\ resp.status = "BLOCKED"
    /\ resp.op = "consecutive" =>
        /\ resp.hardBlock <=> resp.currentStreak >= 7
        /\ resp.needsApproval <=> (6 <= resp.currentStreak /\ resp.currentStreak < 7)
        /\ ~(resp.hardBlock /\ resp.needsApproval)

\* a verdict blocked by the streak alone: CONSEC-001 is its only violation
C20_Witness ==
    /\ IsVerdict
    /\ 1 + RunBefore(resp.employeeId, req.body.date) >= 7
    /\ Rules(resp.violations) = {"CONSEC-001"}
    /\ resp.status = "BLOCKED"

\* an analysis with the center date in a run of 7
C20_AnalysisHardBlock == resp.op = "consecutive" /\ resp.currentStreak >= 7 /\ resp.hardBlock

\* the candidate's shifts of the date that overlap the covered shift
OverlappingOn(e, date, cover) ==
    {i \in ShiftsOn(e, date) :
        cal.shifts[i].start < cover.end /\ cal.shifts[i].end > cover.start}

HasReason(c, reason) == \E k \in DOMAIN c.reasons : c.reasons[k] = reason
HasWarning(c, warning) == \E k \in DOMAIN c.warnings : c.warnings[k] = warning

(* C21: a candidate of findCoverage with shifts on the target date is       *)
(* ineligible, with the already-working reason, if any of them overlaps the *)
(* covered shift, and otherwise gets only the double-shift warning; shifts  *)
(* that touch do not overlap.                                               *)
C21_AnyOverlapBlocks ==
    IsCoverage =>
        \A i \in DOMAIN resp.candidates :
            LET c == resp.candidates[i]
            IN  ShiftsOn(c.employeeId, req.day) # {} =>
                    IF OverlappingOn(c.employeeId, req.day, resp.shiftToCover) # {}
                    THEN HasReason(c, "ALREADY_WORKING") /\ ~c.available
                    ELSE /\ ~HasReason(c, "ALREADY_WORKING")
                         /\ HasWarning(c, "DOUBLE_POSSIBLE")

\* C21 for candidates with one shift on the target date
C21_OneShiftOfTheDay ==
    IsCoverage =>
        \A i \in DOMAIN resp.candidates :
            LET c == resp.candidates[i]
            IN  Cardinality(ShiftsOn(c.employeeId, req.day)) = 1 =>
                    IF OverlappingOn(c.employeeId, req.day, resp.shiftToCover) # {}
                    THEN HasReason(c, "ALREADY_WORKING") /\ ~c.available
                    ELSE /\ ~HasReason(c, "ALREADY_WORKING")
                         /\ HasWarning(c, "DOUBLE_POSSIBLE")

(* C22: within the eligible group of the candidate list the projected       *)
(* weekly hours ascend: of two eligible candidates the earlier one has no   *)
(* more projected hours than the later one; the employee assigned to the    *)
(* covered shift is never in the list.                                      *)
C22_EligibleAscending ==
    IsCoverage =>
        /\ \A i, j \in DOMAIN resp.candidates :
               (/\ i < j
                /\ resp.candidates[i].available
                /\ resp.candidates[j].available)
               => resp.candidates[i].projectedMinutes <= resp.candidates[j].projectedMinutes
        /\ \A i \in DOMAIN resp.candidates :
               resp.candidates[i].employeeId # resp.shiftToCover.employeeId

\* two eligible candidates listed by ascending hours against the order in
\* which they entered the pool
C22_Witness ==
    /\ IsCoverage
    /\ \E i, j \in DOMAIN resp.candidates :
        /\ i < j
        /\ resp.candidates[i].available
        /\ resp.candidates[j].available
        /\ resp.candidates[i].projectedMinutes < resp.candidates[j].projectedMinutes
        /\ PoolPlace(resp.candidates[j].employeeId, req.day)
               < PoolPlace(resp.candidates[i].employeeId, req.day)

\* the slots of the Clement shifts of the 28 days before the coverage
\* request, and how often each ran
PastSlots ==
    {SlotOf(cal.shifts[i]) : i \in {j \in DOMAIN cal.shifts :
        /\ cal.shifts[j].locationId = CLEMENT
        /\ InRange(cal.shifts[j], (DayOf(CoverNow) - 28) * MinutesPerDay, CoverNow)}}
TimesRun(slot) ==
    Cardinality({j \in DOMAIN cal.shifts :
        /\ cal.shifts[j].locationId = CLEMENT
        /\ InRange(cal.shifts[j], (DayOf(CoverNow) - 28) * MinutesPerDay, CoverNow)
        /\ SlotOf(cal.shifts[j]) = slot})
TemplateSlots == {slot \in PastSlots : TimesRun(slot) >= 3}

ExactTier(shift) ==
    \E t \in TemplateSlots :
        /\ t.position = shift.position
        /\ t.startTime = MinuteOfDay(shift.start)
        /\ t.endTime = MinuteOfDay(shift.end)
        /\ t.dayType = DayType(shift.start)
PositionTier(shift) ==
    \E t \in TemplateSlots : t.position = shift.position /\ t.dayType = DayType(shift.start)
TimeTier(shift) ==
    \E t \in TemplateSlots :
        /\ t.startTime = MinuteOfDay(shift.start)
        /\ t.endTime = MinuteOfDay(shift.end)
        /\ t.dayType = DayType(shift.start)

MatchedTier == IF resp.templateMatch = <<>> THEN "none" ELSE resp.templateMatch[1].matchType

(* C23: the template matcher returns one tier by strict priority: exact iff *)
(* a template equals the shift on position, start, end and day type; else   *)
(* position iff one has its position and day type; else time iff one has    *)
(* its start, end and day type; else none with no template.  The templates  *)
(* it is given are the groups that ran at least 3 times, by descending      *)
(* count.                                                                   *)
C23_TierByPriority ==
    IsCoverage =>
        /\ MatchedTier = IF ExactTier(resp.shiftToCover) THEN "exact"
                         ELSE IF PositionTier(resp.shiftToCover) THEN "position"
                         ELSE IF TimeTier(resp.shiftToCover) THEN "time"
                         ELSE "none"
        /\ resp.templateMatch # <<>> =>
               LET t == resp.templateMatch[1]
                   slot == [position |-> t.position, startTime |-> t.startTime,
                            endTime |-> t.endTime, dayType |-> t.dayType]
               IN  slot \in TemplateSlots /\ t.count = TimesRun(slot)
        /\ {[position |-> TemplatesNow[i].position, startTime |-> TemplatesNow[i].startTime,
             endTime |-> TemplatesNow[i].endTime, dayType |-> TemplatesNow[i].dayType] :
                i \in DOMAIN TemplatesNow} = TemplateSlots
        /\ Len(TemplatesNow) = Cardinality(TemplateSlots)
        /\ \A i, j \in DOMAIN TemplatesNow :
               i < j => TemplatesNow[i].count >= TemplatesNow[j].count

\* a shift matched at the position tier while another template has its
\* times, with a group that ran twice left out of the templates
C23_Witness ==
    /\ IsCoverage
    /\ MatchedTier = "position"
    /\ TimeTier(resp.shiftToCover)
    /\ \E slot \in PastSlots : TimesRun(slot) = 2

\* the other tiers
C23_ExactReached == IsCoverage /\ MatchedTier = "exact"
C23_TimeReached == IsCoverage /\ MatchedTier = "time"
C23_NoneReached == IsCoverage /\ MatchedTier = "none" /\ TemplateSlots # {}

\* the classification of a streak length, and the run that contains a date
\* on the whole calendar with the date counted as worked
StreakClass(n) == IF n >= 7 THEN "hard" ELSE IF n >= 6 THEN "warn" ELSE "none"
TrueRun(e, date) == 1 + RunBefore(e, date) + RunAfter(e, date)

C24_VerdictCut ==
    IsVerdict /\ resp.consecutiveDays < TrueRun(resp.employeeId, req.body.date)
C24_AnalysisCut ==
    /\ resp.op = "consecutive"
    /\ req.date \in WorkDates(req.userId, cal.shifts)
    /\ resp.currentStreak < TrueRun(req.userId, req.date)

\* the days findCoverage sums a candidate's hours over, and those of Validate
CoverWeekDays(date) == (date - getDay(date))..(date - getDay(date) + 6)
ValidateWeekDays(date) ==
    DayOf(getWeekRange(date).start)..(DayOf(getWeekRange(date).end) - 1)

(* C25: weekly hours are summed over the same week, Monday through Sunday,  *)
(* in every operation: findCoverage reports for a candidate the current     *)
(* weekly hours Validate reports for that employee and date.                *)
C25_SameWeekEverywhere ==
    IsCoverage =>
        /\ CoverWeekDays(req.day) = ValidateWeekDays(req.day)
        /\ \A i \in DOMAIN resp.candidates :
               resp.candidates[i].weeklyMinutes
                   = ValidateVerdict(cal, OwnSession,
                                     Body(resp.candidates[i].employeeId, "", req.day,
                                          NoWindow, <<>>)).weeklyMinutes

\* the half of C25 about the hours alone
C25_SameHours ==
    IsCoverage =>
        \A i \in DOMAIN resp.candidates :
            resp.candidates[i].weeklyMinutes
                = ValidateVerdict(cal, OwnSession,
                                  Body(resp.candidates[i].employeeId, "", req.day,
                                       NoWindow, <<>>)).weeklyMinutes

----------------------------------------------------------------------------
(* The clock monitor's claims *)

UnresolvedPending ==
    {k \in DOMAIN monitoringState.pendingReplies : ~monitoringState.pendingReplies[k].resolved}

(* C26: between two resets, every unresolved entry of pendingReplies refers
   to a shift that still has an entry in activeShifts, whatever the
   interleaving of the clock-in, reply and clock-out handlers. *)
C26_PendingHasShift ==
    \A k \in UnresolvedPending :
        monitoringState.activeShifts[monitoringState.pendingReplies[k].shiftId].defined

\* the reply handler reads the shift record of a pending reply as missing and ends in its catch
C26_ReplyReadsMissing ==
    ~(handlers.reply.at = "clock" /\ ~handlers.reply.shift.defined /\ ~handlers.reply.detached)

(* C27: between two resets at most one clock-in reminder is sent for a
   shift, also after the reply handler set a coverage status or the
   clock-out handler rewrote the record. *)
C27_OneClockinReminder ==
    \A s \in ShiftIds : sentLog.clockin[s] <= 1

\* the other half of C27: a clock-in check never overwrites recorded coverage
C27_CoverageKept ==
    [][\A s \in ShiftIds :
          (monitoringState.activeShifts[s].coveredBy # 0 /\ handlers.clockin # handlers'.clockin)
              => monitoringState'.activeShifts[s].coveredBy = monitoringState.activeShifts[s].coveredBy]_vars

(* C28: between two resets at most one clock-out reminder is sent per
   shift, and a shift in resolvedToday has no activeShifts entry until the
   reset. *)
C28_OneClockoutReminder ==
    \A s \in ShiftIds :
        /\ sentLog.clockout[s] <= 1
        /\ s \in monitoringState.resolvedToday => ~monitoringState.activeShifts[s].defined

\* the halves of C28 on their own
C28_OneReminderOnly == \A s \in ShiftIds : sentLog.clockout[s] <= 1

C28_ResolvedStaysGone ==
    \A s \in monitoringState.resolvedToday : ~monitoringState.activeShifts[s].defined

----------------------------------------------------------------------------
(* The daily scheduler's claim *)

(* C29: the daily scheduler starts the posting of tomorrow's schedule at
   most once per Pacific date: of the timer callbacks of the posting hour
   exactly the first starts it, also while an earlier callback still awaits
   the calendar or Slack, and a posting that failed is not started again on
   that date. *)
C29_OncePerDate ==
    \A d \in SchedulerDates :
        /\ postings[d].started <= 1
        /\ postings[d].callbacks = 0 => postings[d].started = 0
        /\ postings[d].callbacks >= 1 => postings[d].started = 1 /\ postings[d].startedBy = 1
        /\ postings[d].started = 1 => lastPostedDate >= d

\* a later callback of the posting hour has run after the posting of the date failed
C29_Witness ==
    \E d \in SchedulerDates :
        /\ postings[d].at = "failed"
        /\ postings[d].callbacks >= 2
        /\ postings[d].started = 1

\* a later callback has run while the first still awaits the calendar or Slack
C29_WhileAwaiting ==
    \E d \in SchedulerDates :
        /\ postings[d].at \in {"calendar", "slack"}
        /\ postings[d].callbacks >= 2
        /\ wallClock.date = d

----------------------------------------------------------------------------
(* The streak analysis's claim *)

\* the Pacific dates of the window around the center date on which the
\* employee has a shift
WindowWorked(e, date) ==
    WorkDates(e, getOrgCalendar(cal, OwnSession, (date - 10) * MinutesPerDay,
                                (date + 11) * MinutesPerDay).shifts)

(* C30: in every response of the streak analysis currentStreak is at most
   longestStreak, it is 0 iff the center date is not a worked date, and when
   the center date is worked it is the length of the maximal run of worked
   dates of the window that contains it, a run reaching the last day of the
   window included. *)
C30_CenterStreak ==
    resp.op = "consecutive" =>
        /\ resp.currentStreak <= resp.longestStreak
        /\ resp.currentStreak = 0 <=> req.date \notin WindowWorked(req.userId, req.date)
        /\ req.date \in WindowWorked(req.userId, req.date)
               => resp.currentStreak
                      = Cardinality(RunAround(WindowWorked(req.userId, req.date), req.date))

\* C30 on a server whose clock is on Pacific time
C30_OnPacificServer == (resp.op = "consecutive" /\ req.zone = 0) => C30_CenterStreak

\* a worked center date whose run reaches the last day of the window
C30_OpenRunReached ==
    /\ resp.op = "consecutive"
    /\ req.zone = 0
    /\ req.date \in WindowWorked(req.userId, req.date)
    /\ (req.date + 10) \in RunAround(WindowWorked(req.userId, req.date), req.date)
    /\ resp.currentStreak >= 11

====
